---- MODULE Spec2Model ----
(***************************************************************************)
(* Area Occupancy Detection: the coordinator (coordinator.py) and the      *)
(* probability calculator (calculations.py) as a state machine.            *)
(*                                                                         *)
(* Numbers.  Probabilities are fixed-point integers in units of 1/10000    *)
(* (0.2356 is 2356).  Time is counted in ticks of 60 seconds.  The         *)
(* threshold option (a percentage, 0..100, default 0.5) is kept in tenths  *)
(* of a percent (50 % is 500, the default 0.5 % is 5).                     *)
(*                                                                         *)
(* Python's None is NoTime (-1) for timestamps and Missing (-1) for an     *)
(* absent dictionary key; an optional record is a sequence of length 0     *)
(* or 1.                                                                   *)
(***************************************************************************)
EXTENDS Integers, Sequences, FiniteSets, TLC

(***************************************************************************)
(* Bounds of the model.                                                    *)
(***************************************************************************)
MaxTime == 2
MaxStoreTime == 6
MaxBurst == 3
MaxSamples == 3
MaxEvents == 2
MaxPriorEvents == 1

(***************************************************************************)
(* Program constants.                                                      *)
(***************************************************************************)
Scale == 10000
MIN_PROBABILITY == 100
MAX_PROBABILITY == 9900
DEFAULT_PRIOR == 1713
DecayFactorPerTick == 9170

MOTION_PROB_GIVEN_TRUE == 2500
MOTION_PROB_GIVEN_FALSE == 500
LIGHT_PROB_GIVEN_TRUE == 2000
LIGHT_PROB_GIVEN_FALSE == 200
DEFAULT_PROB_GIVEN_TRUE == 3000
DEFAULT_PROB_GIVEN_FALSE == 200
MOTION_DEFAULT_PRIOR == 3500
LIGHT_DEFAULT_PRIOR == 3846

DEFAULT_THRESHOLD == 5
DEFAULT_DECAY_WINDOW == 10
DecayMinDelayDefault == 1
ProbabilityHistoryMaxLen == 12
OccupancyHistoryMaxLen == 288
SaveInterval == 5

NoTime == -1
Missing == -1

(***************************************************************************)
(* State.                                                                  *)
(***************************************************************************)
VARIABLES
    pc,                       \* where each task stands
    initialization_complete,  \* _initialization_complete
    state_lock,               \* _state_lock: "free" or the task that holds it
    hass_states,              \* the host's current state of every entity
    tracking,                 \* the state-change listener is registered
    sensor_states,            \* _sensor_states, a dict in insertion order
    data,                     \* coordinator.data: <<>> or <<ProbabilityResult>>
    last_update_success,      \* DataUpdateCoordinator.last_update_success
    learned_priors,           \* learned_priors
    last_positive_trigger,    \* _last_positive_trigger
    threshold,                \* options_config["threshold"], Missing when not configured
    options_lights,           \* options_config["lights"]
    now,                      \* the clock, dt_util.utcnow()
    timer_pending,            \* the debouncer's cooldown timer is running
    execute_at_end,           \* the debouncer's _execute_at_end_of_timer
    burst,                    \* the events and recomputations of the current burst
    last_call,                \* the inputs and the outcome of the latest calculate call
    storage,                  \* the blob in the area's persistent store
    probability_history,      \* _probability_history
    occupancy_history,        \* _occupancy_history
    last_occupied,            \* _last_occupied
    last_state_change,        \* _last_state_change
    last_save,                \* _last_save
    saved,                    \* the coordinator state written by the latest async_save_state
    historical_analysis_ready, \* _historical_analysis_ready is set
    historical_analysis_lock, \* _historical_analysis_lock: "free" or the task that holds it
    timeslot_data,            \* _timeslot_data
    cache,                    \* the calculator's _cache: the slot data under each key
    last_cache_update,        \* the calculator's _last_cache_update
    prior_index,              \* the sensors _compute_initial_priors has gone through
    save_tasks                \* the async_save_state tasks that have not finished

vars == <<pc, initialization_complete, state_lock, hass_states, tracking, sensor_states,
          data, last_update_success, learned_priors, last_positive_trigger, threshold,
          options_lights, now, timer_pending, execute_at_end, burst, last_call, storage,
          probability_history, occupancy_history, last_occupied, last_state_change,
          last_save, saved, historical_analysis_ready, historical_analysis_lock,
          timeslot_data, cache, last_cache_update, prior_index, save_tasks>>

debounceVars == <<timer_pending, execute_at_end, burst>>
historyVars == <<probability_history, occupancy_history, last_occupied, last_state_change>>
storeVars == <<storage, last_save, saved>>
cacheVars == <<cache, last_cache_update>>
analysisVars == <<historical_analysis_ready, historical_analysis_lock, timeslot_data,
                  cacheVars, prior_index, save_tasks>>

(***************************************************************************)
(* The configured entities: core_config["motion_sensors"] and the lights   *)
(* of options_config, in the order _get_all_configured_sensors lists them. *)
(* Entities are the entities configured at construction; the host knows    *)
(* one more light, which an options update may add.                        *)
(***************************************************************************)
motion_sensors == <<"m1">>
InitialLights == <<"l1">>
AddedLights == <<"l1", "l2">>
lights == options_lights

InSeq(x, s) == \E i \in 1..Len(s) : s[i] = x

get_all_configured_sensors == motion_sensors \o lights

Entities == {"m1", "l1"}
HostEntities == Entities \cup {"l2"}

\* The states the host reports for an entity.
HostStates == {"on", "off", "unavailable"}

Max(a, b) == IF a >= b THEN a ELSE b
Min(a, b) == IF a <= b THEN a ELSE b

(***************************************************************************)
(* Fixed-point arithmetic.  Ratio(n, d) is floor(n * Scale / d), by long   *)
(* division one decimal digit at a time, so that no intermediate value     *)
(* leaves the 32-bit range.                                                *)
(***************************************************************************)
RECURSIVE Pow10(_)
Pow10(k) == IF k = 0 THEN 1 ELSE 10 * Pow10(k - 1)

RECURSIVE LongDiv(_, _, _)
LongDiv(r, d, k) ==
    IF k = 0 THEN 0
    ELSE ((r * 10) \div d) * Pow10(k - 1) + LongDiv((r * 10) % d, d, k - 1)

Ratio(n, d) == (n \div d) * Scale + LongDiv(n % d, d, 4)

FixMul(a, b) == (a * b) \div Scale

\* max(MIN_PROBABILITY, min(p, MAX_PROBABILITY))
Clamp(p) == Max(MIN_PROBABILITY, Min(p, MAX_PROBABILITY))

(***************************************************************************)
(* update_probability: one Bayesian update, inputs and result clamped.     *)
(***************************************************************************)
update_probability(prior, prob_given_true, prob_given_false) ==
    LET pr == Clamp(prior)
        pt == Clamp(prob_given_true)
        pf == Clamp(prob_given_false)
        numerator == pt * pr
        denominator == numerator + pf * (Scale - pr)
    IN  IF denominator = 0 THEN pr ELSE Clamp(Ratio(numerator, denominator))

\* get_default_prior: the default prior of the entity's category.
get_default_prior(entity_id) ==
    IF InSeq(entity_id, motion_sensors) THEN MOTION_DEFAULT_PRIOR
    ELSE IF InSeq(entity_id, lights) THEN LIGHT_DEFAULT_PRIOR
    ELSE DEFAULT_PRIOR

\* get_sensor_priors: the default (prob_given_true, prob_given_false) of the category.
get_sensor_priors(entity_id) ==
    IF InSeq(entity_id, motion_sensors)
    THEN <<MOTION_PROB_GIVEN_TRUE, MOTION_PROB_GIVEN_FALSE>>
    ELSE IF InSeq(entity_id, lights)
    THEN <<LIGHT_PROB_GIVEN_TRUE, LIGHT_PROB_GIVEN_FALSE>>
    ELSE <<DEFAULT_PROB_GIVEN_TRUE, DEFAULT_PROB_GIVEN_FALSE>>

\* The sensor categories; "none" is an entity that is in no configured list.
Categories ==
    {"motion", "media", "appliance", "door", "window", "light", "environmental", "none"}

\* The category whose list holds the entity; motion sensors and lights are configured.
category_of(entity_id) ==
    IF InSeq(entity_id, motion_sensors) THEN "motion"
    ELSE IF InSeq(entity_id, lights) THEN "light"
    ELSE "none"

\* The states in which _is_active_now holds for an entity of the category.
active_now_states(category) ==
    CASE category = "motion" -> {"on"}
      [] category = "media" -> {"playing", "paused"}
      [] category = "appliance" -> {"on"}
      [] category = "door" -> {"off", "closed"}
      [] category = "window" -> {"on", "open"}
      [] category = "light" -> {"on"}
      [] OTHER -> {}

\* The states in which _is_entity_active holds (is_environmental left at False).
entity_active_states(category) ==
    CASE category = "motion" -> {"on"}
      [] category = "media" -> {"playing", "paused"}
      [] category = "appliance" -> {"on"}
      [] category = "door" -> {"on", "open"}
      [] category = "window" -> {"on", "open"}
      [] category = "light" -> {"on"}
      [] OTHER -> {}

\* sensor_configs[category]["active_states"]; no entry for an entity in no list.
configured_active_states(category) ==
    CASE category = "motion" -> {"on"}
      [] category = "media" -> {"playing", "paused"}
      [] category = "appliance" -> {"on"}
      [] category = "door" -> {"off", "closed"}
      [] category = "window" -> {"on", "open"}
      [] category = "light" -> {"on"}
      [] category = "environmental" -> {"on"}
      [] OTHER -> {}

\* _is_active_now
is_active_now(entity_id, state) == state \in active_now_states(category_of(entity_id))

(***************************************************************************)
(* The learned-priors map holds, per entity, no entry (<<>>) or one entry  *)
(* <<[prob_given_true, prob_given_false, prior]>>; a key the stored entry  *)
(* lacks is Missing.                                                       *)
(***************************************************************************)
\* _get_sensor_priors_from_history raises KeyError on an entry that lacks a likelihood.
priors_raise_key_error(priors, entity_id) ==
    /\ priors[entity_id] # <<>>
    /\ \/ priors[entity_id][1].prob_given_true = Missing
       \/ priors[entity_id][1].prob_given_false = Missing

\* _get_sensor_priors_from_history: the learned likelihoods, or <<>> for (None, None).
get_sensor_priors_from_history(priors, entity_id) ==
    IF priors[entity_id] # <<>>
    THEN <<priors[entity_id][1].prob_given_true, priors[entity_id][1].prob_given_false>>
    ELSE <<>>

\* _get_sensor_prior: the learned prior when the entry has one, else the category default.
get_sensor_prior(priors, entity_id) ==
    IF priors[entity_id] # <<>> /\ priors[entity_id][1].prior # Missing
    THEN priors[entity_id][1].prior
    ELSE get_default_prior(entity_id)

\* get_timeslot_probabilities: the entity's entry in the slot's "entities" list, or <<>>.
get_timeslot_probabilities(entity_id, timeslot) ==
    IF \E i \in 1..Len(timeslot) : timeslot[i].id = entity_id
    THEN LET i == CHOOSE j \in 1..Len(timeslot) :
                      /\ timeslot[j].id = entity_id
                      /\ \A k \in 1..(j - 1) : timeslot[k].id # entity_id
         IN  <<timeslot[i].prob_given_true, timeslot[i].prob_given_false>>
    ELSE <<>>

\* A resolution that looks at the timeslot entry before the learned prior.
resolve_priors_slot_first(priors, entity_id, timeslot) ==
    LET learned == get_sensor_priors_from_history(priors, entity_id)
        slot == get_timeslot_probabilities(entity_id, timeslot)
    IN  IF slot # <<>>
        THEN <<slot[1], slot[2], get_sensor_prior(priors, entity_id)>>
        ELSE IF learned # <<>>
        THEN <<learned[1], learned[2], get_sensor_prior(priors, entity_id)>>
        ELSE <<get_sensor_priors(entity_id)[1], get_sensor_priors(entity_id)[2],
               get_default_prior(entity_id)>>

(***************************************************************************)
(* The (prob_given_true, prob_given_false, prior) of one available sensor, *)
(* as the loop of calculate resolves it: learned prior, else timeslot      *)
(* entry (with the prior of _get_sensor_prior), else category defaults.    *)
(***************************************************************************)
resolve_priors(priors, entity_id, timeslot) ==
    LET learned == get_sensor_priors_from_history(priors, entity_id)
        slot == get_timeslot_probabilities(entity_id, timeslot)
    IN  IF learned # <<>>
        THEN <<learned[1], learned[2], get_sensor_prior(priors, entity_id)>>
        ELSE IF slot # <<>>
        THEN <<slot[1], slot[2], get_sensor_prior(priors, entity_id)>>
        ELSE <<get_sensor_priors(entity_id)[1], get_sensor_priors(entity_id)[2],
               get_default_prior(entity_id)>>

(***************************************************************************)
(* The update calculate performs for an active sensor.  The running        *)
(* posterior current_probability is at hand, and the call passes the       *)
(* sensor's own prior_val to update_probability.                           *)
(***************************************************************************)
sensor_update(current_probability, prior_val, p_true, p_false) ==
    update_probability(prior_val, p_true, p_false)

(***************************************************************************)
(* The loop of calculate over sensor_states (a dict, in insertion order):  *)
(* unavailable sensors are skipped; an active sensor is appended to        *)
(* active_triggers and replaces current_probability; every available       *)
(* sensor gets its sensor_probs entry.                                     *)
(***************************************************************************)
RECURSIVE calculate_loop(_, _, _, _, _)
calculate_loop(sensor_states_arg, i, priors, timeslot, acc) ==
    IF i > Len(sensor_states_arg) THEN acc
    ELSE LET s == sensor_states_arg[i]
         IN  IF ~s.availability
             THEN calculate_loop(sensor_states_arg, i + 1, priors, timeslot, acc)
             ELSE LET tr == resolve_priors(priors, s.id, timeslot)
                      is_active == is_active_now(s.id, s.state)
                      cur == IF is_active
                             THEN sensor_update(acc.current_probability, tr[3], tr[1], tr[2])
                             ELSE acc.current_probability
                  IN  calculate_loop(sensor_states_arg, i + 1, priors, timeslot,
                         [current_probability |-> cur,
                          active_triggers |-> IF is_active
                                              THEN Append(acc.active_triggers, s.id)
                                              ELSE acc.active_triggers,
                          sensor_probs |-> Append(acc.sensor_probs,
                                                  [id |-> s.id, probability |-> cur])])

\* A loop that resolves the priors of unavailable sensors too.
calculate_raises_unavailable(sensor_states_arg, priors) ==
    \E i \in 1..Len(sensor_states_arg) :
        priors_raise_key_error(priors, sensor_states_arg[i].id)

\* The loop raises KeyError at the first available sensor whose learned entry is malformed.
calculate_raises(sensor_states_arg, priors) ==
    \E i \in 1..Len(sensor_states_arg) :
        /\ sensor_states_arg[i].availability
        /\ priors_raise_key_error(priors, sensor_states_arg[i].id)

\* coordinator.data["probability"] when there is a published result, else DEFAULT_PRIOR.
previous_probability(cdata) ==
    IF cdata # <<>> THEN cdata[1].probability ELSE DEFAULT_PRIOR

\* get_decay_window, get_decay_min_delay: the options are left at their defaults.
get_decay_window == DEFAULT_DECAY_WINDOW
get_decay_min_delay == DecayMinDelayDefault

\* A decay that already applies when the elapsed time equals the minimum delay.
decay_applies_at_delay(elapsed, decay_min_delay, decay_window) ==
    elapsed >= decay_min_delay /\ elapsed > 0 /\ decay_window > 0

\* A decay that does not wait for the minimum delay.
decay_applies_without_delay(elapsed, decay_min_delay, decay_window) ==
    elapsed > 0 /\ decay_window > 0

\* elapsed > decay_min_delay and elapsed > 0 and decay_window > 0
decay_applies(elapsed, decay_min_delay, decay_window) ==
    elapsed > decay_min_delay /\ elapsed > 0 /\ decay_window > 0

\* math.exp(-DECAY_LAMBDA * (elapsed / decay_window)) for the default window.
RECURSIVE decay_factor(_)
decay_factor(elapsed) ==
    IF elapsed <= 0 THEN Scale ELSE FixMul(decay_factor(elapsed - 1), DecayFactorPerTick)

\* The threshold option compared as a raw percentage, not divided by 100.
get_threshold_percent(thr) ==
    (IF thr = Missing THEN DEFAULT_THRESHOLD ELSE thr) * 1000

\* get_threshold_decimal: the threshold option (default DEFAULT_THRESHOLD) / 100.
get_threshold_decimal(thr) ==
    (IF thr = Missing THEN DEFAULT_THRESHOLD ELSE thr) * 10

\* The sensor_availability map of a result.
sensor_availability_of(sensor_states_arg) ==
    [i \in 1..Len(sensor_states_arg) |->
        [id |-> sensor_states_arg[i].id,
         availability |-> sensor_states_arg[i].availability]]

(***************************************************************************)
(* calculate(sensor_states, motion_timestamps, timeslot), reading the      *)
(* coordinator's data, learned priors, last positive trigger and options.  *)
(* kind is "ok" (result holds the ProbabilityResult, trigger the new       *)
(* last positive trigger), "error" (HomeAssistantError) or "blocked": the  *)
(* call is suspended in set_last_positive_trigger or                       *)
(* get_last_positive_trigger, which take the state lock.                   *)
(***************************************************************************)
calculate(sensor_states_arg, timeslot, cdata, priors, ltp, t, thr, lock_free) ==
    IF calculate_raises(sensor_states_arg, priors)
    THEN [kind |-> "error", result |-> <<>>, trigger |-> ltp]
    ELSE IF ~lock_free
    THEN [kind |-> "blocked", result |-> <<>>, trigger |-> ltp]
    ELSE
    LET loop == calculate_loop(sensor_states_arg, 1, priors, timeslot,
                    [current_probability |-> previous_probability(cdata),
                     active_triggers |-> <<>>,
                     sensor_probs |-> <<>>])
        clamped == Clamp(loop.current_probability)
        active == loop.active_triggers # <<>>
        elapsed == t - ltp
        decays == /\ ~active
                  /\ ltp # NoTime
                  /\ decay_applies(elapsed, get_decay_min_delay, get_decay_window)
        final_probability ==
            IF decays THEN Clamp(FixMul(clamped, decay_factor(elapsed))) ELSE clamped
    IN  [kind |-> "ok",
         result |-> <<[probability |-> final_probability,
                       prior_probability |-> 0,
                       active_triggers |-> loop.active_triggers,
                       sensor_probabilities |-> loop.sensor_probs,
                       decay_status |-> IF decays THEN Scale - decay_factor(elapsed) ELSE 0,
                       sensor_availability |-> sensor_availability_of(sensor_states_arg),
                       is_occupied |-> final_probability >= get_threshold_decimal(thr)]>>,
         trigger |-> IF active THEN t ELSE ltp]

\* _async_minimal_update: the result published while initialization is not complete.
async_minimal_update(sensor_states_arg) ==
    [probability |-> 0,
     prior_probability |-> 0,
     active_triggers |-> <<>>,
     sensor_probabilities |-> <<>>,
     decay_status |-> 0,
     sensor_availability |-> sensor_availability_of(sensor_states_arg),
     is_occupied |-> FALSE]

(***************************************************************************)
(* Tasks.  "setup" runs async_setup_entry's sequence, "debounce" the job   *)
(* of the debouncer, "poll" the fixed-interval refresh of the update       *)
(* coordinator, "service" a threshold update, "reset" async_reset,         *)
(* "analysis" async_run_historical_analysis_task.                          *)
(***************************************************************************)
Tasks == {"setup", "debounce", "poll", "service", "reset", "analysis"}

NoPriors == [e \in HostEntities |-> <<>>]

(***************************************************************************)
(* The half-hour slots of the day (48 in the program), the slot a time     *)
(* falls in, the coordinator's initial _timeslot_data {"slots": {}} and    *)
(* the calculator's empty _cache.  A slot's data is its "entities" list;   *)
(* a key that is absent reads as the empty list.  has_slots tells whether  *)
(* the dict has the "slots" key.                                           *)
(***************************************************************************)
SlotCount == 2
SlotMinutes == 30
SlotKeys == 0..(SlotCount - 1)
slot_key(t) == (t \div SlotMinutes) % SlotCount
NoSlots == [k \in SlotKeys |-> <<>>]
NoTimeslots == [has_slots |-> TRUE, slots |-> NoSlots]
NoCache == NoSlots

\* No async_save_state task is running.
NoSaveTasks == [created |-> 0, checked |-> <<>>]

\* deque([False] * 288, maxlen=288)
EmptyOccupancy == [i \in 1..OccupancyHistoryMaxLen |-> FALSE]

\* A buffer that keeps its first n items and drops what comes after.
DequeKeepOldest(items, n) ==
    IF Len(items) <= n THEN items ELSE SubSeq(items, 1, n)

\* deque(items, maxlen=n): the last n items.
Deque(items, n) ==
    IF Len(items) <= n THEN items ELSE SubSeq(items, Len(items) - n + 1, Len(items))

\* datetime.isoformat and dt_util.parse_datetime; None stays None.
isoformat(t) == IF t = NoTime THEN <<>> ELSE <<"iso", t>>
parse_datetime(s) == IF s = <<>> THEN NoTime ELSE s[2]

(***************************************************************************)
(* Blobs of the persistent store.  kind "absent": nothing stored;          *)
(* "wrapped": a dict with a "data" key holding the fields; "flat": the     *)
(* dict get_storage_data builds, the fields at top level; "result": a      *)
(* ProbabilityResult, as _save_data stores it; "wrapped_bad": a dict with  *)
(* a "data" key whose occupancy_history is a number, not a list.           *)
(***************************************************************************)
Blob(kind, ph, oh, lo, lsc, lp, res) ==
    [kind |-> kind, probability_history |-> ph, occupancy_history |-> oh,
     last_occupied |-> lo, last_state_change |-> lsc, learned_priors |-> lp,
     result |-> res]

AbsentBlob == Blob("absent", <<>>, <<>>, <<>>, <<>>, NoPriors, <<>>)

GoodPrior == <<[prob_given_true |-> 8000, prob_given_false |-> 1000, prior |-> 5000]>>
MalformedPrior == <<[prob_given_true |-> 8000, prob_given_false |-> Missing, prior |-> Missing]>>

\* What the store may hold when the coordinator is constructed.
InitialBlobs ==
    {AbsentBlob,
     Blob("wrapped", <<6000>>, EmptyOccupancy, isoformat(0), isoformat(0),
          [NoPriors EXCEPT !["l1"] = GoodPrior], <<>>),
     Blob("wrapped", <<>>, EmptyOccupancy, <<>>, <<>>,
          [NoPriors EXCEPT !["m1"] = MalformedPrior], <<>>),
     Blob("wrapped_bad", <<6000>>, <<>>, <<>>, <<>>, NoPriors, <<>>)}

NoBurst == [open |-> FALSE, events |-> 0, runs |-> 0]
NoCall == [kind |-> "none"]

(***************************************************************************)
(* The state after AreaOccupancyCoordinator.__init__.                      *)
(***************************************************************************)
Init ==
    /\ pc = [t \in Tasks |-> IF t = "setup" THEN "constructed" ELSE "idle"]
    /\ initialization_complete = FALSE
    /\ state_lock = "free"
    /\ hass_states \in {f \in [HostEntities -> HostStates] : f["l2"] = "on"}
    /\ tracking = FALSE
    /\ sensor_states = <<>>
    /\ data = <<>>
    /\ last_update_success = TRUE
    /\ learned_priors = NoPriors
    /\ last_positive_trigger = NoTime
    /\ threshold \in {Missing, 500}
    /\ options_lights = InitialLights
    /\ now = 0
    /\ timer_pending = FALSE
    /\ execute_at_end = FALSE
    /\ burst = NoBurst
    /\ last_call = NoCall
    /\ storage \in InitialBlobs
    /\ probability_history = <<>>
    /\ occupancy_history = EmptyOccupancy
    /\ last_occupied = NoTime
    /\ last_state_change = NoTime
    /\ last_save = 0
    /\ saved = <<>>
    /\ historical_analysis_ready = FALSE
    /\ historical_analysis_lock = "free"
    /\ timeslot_data = NoTimeslots
    /\ cache = NoCache
    /\ last_cache_update = NoTime
    /\ prior_index = 0
    /\ save_tasks = NoSaveTasks

(***************************************************************************)
(* _reset_state, as the values it leaves.                                  *)
(***************************************************************************)
reset_state ==
    /\ probability_history' = <<>>
    /\ occupancy_history' = EmptyOccupancy
    /\ last_occupied' = NoTime
    /\ last_state_change' = NoTime
    /\ last_save' = now
    /\ learned_priors' = NoPriors

(***************************************************************************)
(* async_load_stored_data.  A stored dict with a "data" key is loaded;     *)
(* nothing stored resets the state; a stored dict without a "data" key     *)
(* raises KeyError at stored_data["data"], which is caught and resets the  *)
(* state.  deque(x) of a number raises TypeError, which the except clause  *)
(* (IOError, ValueError, KeyError, HomeAssistantError) does not catch: it  *)
(* leaves the fields assigned so far and ends async_setup_entry with       *)
(* ConfigEntryNotReady.                                                    *)
(***************************************************************************)
load_raises == storage.kind = "wrapped_bad"

load_stored_data ==
    IF storage.kind = "wrapped"
    THEN /\ probability_history' =
                Deque(storage.probability_history, ProbabilityHistoryMaxLen)
         /\ occupancy_history' = Deque(storage.occupancy_history, OccupancyHistoryMaxLen)
         /\ last_occupied' = parse_datetime(storage.last_occupied)
         /\ last_state_change' = parse_datetime(storage.last_state_change)
         /\ learned_priors' = storage.learned_priors
         /\ UNCHANGED last_save
    ELSE IF load_raises
    THEN /\ probability_history' =
                Deque(storage.probability_history, ProbabilityHistoryMaxLen)
         /\ UNCHANGED <<occupancy_history, last_occupied, last_state_change,
                        learned_priors, last_save>>
    ELSE reset_state

async_load_stored_data ==
    /\ pc["setup"] = "constructed"
    /\ load_stored_data
    /\ pc' = [pc EXCEPT !["setup"] = IF load_raises THEN "failed" ELSE "loaded"]
    /\ UNCHANGED <<initialization_complete, state_lock, hass_states, tracking,
                   sensor_states, data, last_update_success, last_positive_trigger,
                   threshold, options_lights, analysisVars, now, debounceVars, last_call, storage, saved>>

\* The record kept for an entity whose host state is s.
SensorRecord(entity_id, s) ==
    [id |-> entity_id,
     state |-> IF s = "unavailable" THEN "none" ELSE s,
     availability |-> s # "unavailable"]

\* self._sensor_states[entity_id] = rec: replace in place, or append a new key.
DictSet(d, rec) ==
    IF \E i \in 1..Len(d) : d[i].id = rec.id
    THEN [i \in 1..Len(d) |-> IF d[i].id = rec.id THEN rec ELSE d[i]]
    ELSE Append(d, rec)

RECURSIVE InitializeFrom(_, _, _)
InitializeFrom(d, sensors, i) ==
    IF i > Len(sensors) THEN d
    ELSE InitializeFrom(DictSet(d, SensorRecord(sensors[i], hass_states[sensors[i]])),
                        sensors, i + 1)

(***************************************************************************)
(* async_initialize_states: under the state lock, every configured sensor  *)
(* gets its record from the host's current state; then                     *)
(* _setup_entity_tracking registers the listener.                          *)
(***************************************************************************)
async_initialize_states ==
    /\ pc["setup"] = "loaded"
    /\ state_lock = "free"
    /\ sensor_states' = InitializeFrom(sensor_states, get_all_configured_sensors, 1)
    /\ tracking' = TRUE
    /\ pc' = [pc EXCEPT !["setup"] = "initialized"]
    /\ UNCHANGED <<initialization_complete, state_lock, hass_states, data,
                   last_update_success, learned_priors, last_positive_trigger, threshold, options_lights, analysisVars,
                   now, debounceVars, last_call, historyVars, storeVars>>

(***************************************************************************)
(* async_refresh up to its lock: the branch is chosen by                   *)
(* _initialization_complete, then the call takes the state lock.           *)
(***************************************************************************)
\* A refresh that takes the full branch whatever the flag says.
refresh_always_full == "refresh_lock"

refresh_entry == IF initialization_complete THEN "refresh_lock" ELSE "minimal_lock"

\* mark_initialization_complete: set the flag, then async_refresh.
mark_initialization_complete ==
    /\ pc["setup"] = "initialized"
    /\ initialization_complete' = TRUE
    /\ pc' = [pc EXCEPT !["setup"] = "refresh_lock"]
    /\ UNCHANGED <<state_lock, hass_states, tracking, sensor_states, data,
                   last_update_success, learned_priors, last_positive_trigger, threshold, options_lights, analysisVars,
                   now, debounceVars, last_call, historyVars, storeVars>>

(***************************************************************************)
(* The debouncer (cooldown 0.1 s, immediate=True) around async_refresh.    *)
(* A call while the cooldown timer runs only flags a run for the timer's   *)
(* end; a call while a run is in progress is dropped; any other call       *)
(* starts the job at once.  The timer is started when the job has          *)
(* finished.  burst counts the events of a burst (from the event that      *)
(* finds the debouncer idle to the end of the cooldown that follows) and   *)
(* the recomputations started for them.                                    *)
(***************************************************************************)
debouncer_without_cooldown ==
    IF pc["debounce"] # "idle"
    THEN /\ burst' = [burst EXCEPT !.events = @ + 1]
         /\ UNCHANGED <<pc, timer_pending, execute_at_end>>
    ELSE /\ pc' = [pc EXCEPT !["debounce"] = refresh_entry]
         /\ burst' = IF burst.open
                     THEN [burst EXCEPT !.events = @ + 1, !.runs = @ + 1]
                     ELSE [open |-> TRUE, events |-> 1, runs |-> 1]
         /\ UNCHANGED <<timer_pending, execute_at_end>>

debouncer_async_call ==
    IF timer_pending
    THEN /\ execute_at_end' = TRUE
         /\ burst' = IF burst.open
                     THEN [burst EXCEPT !.events = @ + 1]
                     ELSE [open |-> TRUE, events |-> 1, runs |-> 0]
         /\ UNCHANGED <<pc, timer_pending>>
    ELSE IF pc["debounce"] # "idle"
    THEN /\ burst' = [burst EXCEPT !.events = @ + 1]
         /\ UNCHANGED <<pc, timer_pending, execute_at_end>>
    ELSE /\ pc' = [pc EXCEPT !["debounce"] = refresh_entry]
         /\ burst' = [open |-> TRUE, events |-> 1, runs |-> 1]
         /\ UNCHANGED <<timer_pending, execute_at_end>>

(***************************************************************************)
(* async_state_changed_listener: the host changes the state of an entity   *)
(* and delivers the event.  The listener writes the entity's record        *)
(* without taking the state lock and schedules the debouncer call.         *)
(***************************************************************************)
async_state_changed_listener(entity_id, new_state) ==
    /\ sensor_states' = DictSet(sensor_states, SensorRecord(entity_id, new_state))
    /\ debouncer_async_call

StateChanged(entity_id, new_state) ==
    /\ new_state # hass_states[entity_id]
    /\ burst.events < MaxBurst
    /\ hass_states' = [hass_states EXCEPT ![entity_id] = new_state]
    /\ IF tracking /\ InSeq(entity_id, get_all_configured_sensors)
       THEN async_state_changed_listener(entity_id, new_state)
       ELSE UNCHANGED <<sensor_states, pc, debounceVars>>
    /\ UNCHANGED <<initialization_complete, state_lock, tracking, data,
                   last_update_success, learned_priors, last_positive_trigger, threshold, options_lights, analysisVars,
                   now, last_call, historyVars, storeVars>>

\* The cooldown timer ends: a flagged run starts, unless a run is in progress.
TimerFire ==
    /\ timer_pending
    /\ timer_pending' = FALSE
    /\ execute_at_end' = FALSE
    /\ IF execute_at_end /\ pc["debounce"] = "idle"
       THEN /\ pc' = [pc EXCEPT !["debounce"] = refresh_entry]
            /\ burst' = [open |-> FALSE, events |-> burst.events, runs |-> burst.runs + 1]
       ELSE /\ burst' = [burst EXCEPT !.open = FALSE]
            /\ UNCHANGED pc
    /\ UNCHANGED <<initialization_complete, state_lock, hass_states, tracking,
                   sensor_states, data, last_update_success, learned_priors,
                   last_positive_trigger, threshold, options_lights, analysisVars, now, last_call, historyVars,
                   storeVars>>

\* The position of a task whose refresh has ended.
Finished(t) ==
    [pc EXCEPT ![t] = IF t = "setup" THEN "done"
                      ELSE IF t = "reset" THEN "teardown"
                      ELSE IF t = "analysis" THEN "release"
                      ELSE "idle"]

\* The debouncer starts its cooldown timer when its job has ended.
JobEnds(t) ==
    /\ timer_pending' = (IF t = "debounce" THEN TRUE ELSE timer_pending)
    /\ UNCHANGED <<execute_at_end, burst>>

\* The fixed-interval poll of the update coordinator calls _async_update_data.
poll_refresh ==
    /\ pc["poll"] = "idle"
    /\ pc' = [pc EXCEPT !["poll"] = "update_data"]
    /\ UNCHANGED <<initialization_complete, state_lock, hass_states, tracking,
                   sensor_states, data, last_update_success, learned_priors,
                   last_positive_trigger, threshold, options_lights, analysisVars, now, debounceVars, last_call,
                   historyVars, storeVars>>

\* The threshold values a service call may pass: in range, and out of range.
ThresholdInputs == {300, 1001}

(***************************************************************************)
(* async_update_threshold: a value outside 0..100 raises ValueError; a     *)
(* value inside is stored and async_refresh is called.                     *)
(***************************************************************************)
async_update_threshold(value) ==
    /\ pc["service"] = "idle"
    /\ IF 0 <= value /\ value <= 1000
       THEN /\ threshold' = value
            /\ pc' = [pc EXCEPT !["service"] = refresh_entry]
       ELSE UNCHANGED <<threshold, pc>>
    /\ UNCHANGED <<options_lights, analysisVars, initialization_complete, state_lock, hass_states, tracking,
                   sensor_states, data, last_update_success, learned_priors,
                   last_positive_trigger, now, debounceVars, last_call, historyVars,
                   storeVars>>

(***************************************************************************)
(* async_refresh while initialization is not complete: under the state     *)
(* lock, the minimal result is published.                                  *)
(***************************************************************************)
MinimalUpdate(t) ==
    /\ pc[t] = "minimal_lock"
    /\ state_lock = "free"
    /\ data' = <<async_minimal_update(sensor_states)>>
    /\ last_update_success' = TRUE
    /\ pc' = Finished(t)
    /\ JobEnds(t)
    /\ UNCHANGED <<initialization_complete, state_lock, hass_states, tracking,
                   sensor_states, learned_priors, last_positive_trigger, threshold, options_lights, analysisVars, now,
                   last_call, historyVars, storeVars>>

(***************************************************************************)
(* async_refresh after initialization: the call takes the state lock and,  *)
(* holding it, calls the update coordinator's refresh, which calls         *)
(* _async_update_data.                                                     *)
(***************************************************************************)
RefreshAcquire(t) ==
    /\ pc[t] = "refresh_lock"
    /\ state_lock = "free"
    /\ state_lock' = t
    /\ pc' = [pc EXCEPT ![t] = "update_data"]
    /\ UNCHANGED <<initialization_complete, hass_states, tracking, sensor_states, data,
                   last_update_success, learned_priors, last_positive_trigger, threshold, options_lights, analysisVars,
                   now, debounceVars, last_call, historyVars, storeVars>>

\* The slot handed to calculate: {} while _historical_analysis_ready is not set,
\* else _timeslot_data.get("slots", {}).get(slot_key, {}).
slot_lookup(ready, timeslots, t) ==
    IF ready /\ timeslots.has_slots THEN timeslots.slots[slot_key(t)] ELSE <<>>

current_slot == slot_lookup(historical_analysis_ready, timeslot_data, now)

\* Whether an asyncio.Lock held by holder can be taken at once.
LockFree(holder) == holder = "free"

(***************************************************************************)
(* _update_historical_tracking(result).  The probability is appended       *)
(* first; options_config["threshold"] raises KeyError when the threshold   *)
(* is not configured; the comparison is against the raw percentage.        *)
(***************************************************************************)
tracking_raises == threshold = Missing

tracked_is_occupied(result) == result.probability >= threshold * 1000

update_historical_tracking(result) ==
    /\ probability_history' =
           Deque(Append(probability_history, result.probability), ProbabilityHistoryMaxLen)
    /\ IF tracking_raises
       THEN UNCHANGED <<occupancy_history, last_occupied, last_state_change>>
       ELSE LET is_occupied == tracked_is_occupied(result)
                history == Deque(Append(occupancy_history, is_occupied),
                                 OccupancyHistoryMaxLen)
            IN  /\ occupancy_history' = history
                /\ last_occupied' = IF is_occupied THEN now ELSE last_occupied
                /\ last_state_change' =
                       IF \/ last_state_change = NoTime
                          \/ /\ Len(history) > 1
                             /\ history[Len(history) - 1] # is_occupied
                       THEN now ELSE last_state_change

\* _save_data(result): the result is written to the area's store; a failed write is logged.
save_data(result) ==
    \/ storage' = Blob("result", <<>>, <<>>, <<>>, <<>>, NoPriors, <<result>>)
    \/ UNCHANGED storage

(***************************************************************************)
(* _async_update_data: take the state lock, calculate, track, save, and    *)
(* return the result; the listed errors become UpdateFailed, which leaves  *)
(* data as it was and clears last_update_success.  calculate takes the     *)
(* state lock again for the last positive trigger.                         *)
(***************************************************************************)
UpdateData(t) ==
    /\ pc[t] = "update_data"
    /\ state_lock = "free"
    /\ LET holder == t
           calc == calculate(sensor_states, current_slot, data, learned_priors,
                             last_positive_trigger, now, threshold, LockFree(holder))
       IN  CASE calc.kind = "blocked" ->
                  /\ state_lock' = holder
                  /\ pc' = [pc EXCEPT ![t] = "trigger_lock"]
                  /\ UNCHANGED <<data, last_update_success, last_positive_trigger,
                                 debounceVars, historyVars, storage>>
             [] calc.kind = "error" ->
                  /\ last_update_success' = FALSE
                  /\ pc' = Finished(t)
                  /\ JobEnds(t)
                  /\ UNCHANGED <<state_lock, data, last_positive_trigger, historyVars,
                                 storage>>
             [] calc.kind = "ok" ->
                  /\ last_positive_trigger' = calc.trigger
                  /\ update_historical_tracking(calc.result[1])
                  /\ IF tracking_raises
                     THEN /\ last_update_success' = FALSE
                          /\ UNCHANGED <<data, storage>>
                     ELSE /\ save_data(calc.result[1])
                          /\ data' = calc.result
                          /\ last_update_success' = TRUE
                  /\ pc' = Finished(t)
                  /\ JobEnds(t)
                  /\ UNCHANGED state_lock
    /\ UNCHANGED <<initialization_complete, hass_states, tracking, sensor_states,
                   learned_priors, threshold, options_lights, analysisVars, now, last_call, last_save, saved>>

Next ==
    \/ async_load_stored_data
    \/ async_initialize_states
    \/ mark_initialization_complete
    \/ \E e \in Entities, s \in HostStates : StateChanged(e, s)
    \/ TimerFire
    \/ poll_refresh
    \/ \E v \in ThresholdInputs : async_update_threshold(v)
    \/ \E t \in Tasks : MinimalUpdate(t)
    \/ \E t \in Tasks : RefreshAcquire(t)
    \/ \E t \in Tasks : UpdateData(t)

Spec == Init /\ [][Next]_vars

(***************************************************************************)
(* update_options: the options are replaced, the calculator is rebuilt     *)
(* from them, the records of entities no longer configured are dropped,    *)
(* and _setup_entity_tracking registers the listener for the new list.     *)
(***************************************************************************)
OptionsInputs ==
    {[threshold |-> 500, lights |-> InitialLights],
     [threshold |-> 700, lights |-> AddedLights]}

RECURSIVE KeepConfigured(_, _)
KeepConfigured(d, sensors) ==
    IF d = <<>> THEN <<>>
    ELSE (IF InSeq(Head(d).id, sensors) THEN <<Head(d)>> ELSE <<>>)
         \o KeepConfigured(Tail(d), sensors)

update_options(options_config) ==
    /\ tracking
    /\ threshold' = options_config.threshold
    /\ options_lights' = options_config.lights
    /\ sensor_states' = KeepConfigured(sensor_states,
                                       motion_sensors \o options_config.lights)
    /\ tracking' = TRUE
    /\ UNCHANGED <<pc, initialization_complete, state_lock, hass_states, data,
                   last_update_success, learned_priors, last_positive_trigger, now,
                   debounceVars, last_call, historyVars, storeVars, analysisVars>>

(***************************************************************************)
(* async_reset: the sensor states, the histories, the timestamps and the   *)
(* learned priors are cleared, then async_refresh is awaited; when it has  *)
(* returned, the listener is removed and the debouncer shut down.          *)
(***************************************************************************)
async_reset ==
    /\ pc["reset"] = "idle"
    /\ tracking
    /\ sensor_states' = <<>>
    /\ probability_history' = <<>>
    /\ occupancy_history' =
           Deque(occupancy_history \o EmptyOccupancy, OccupancyHistoryMaxLen)
    /\ last_occupied' = NoTime
    /\ last_state_change' = NoTime
    /\ learned_priors' = NoPriors
    /\ pc' = [pc EXCEPT !["reset"] = refresh_entry]
    /\ historical_analysis_ready' = FALSE
    /\ timeslot_data' = NoTimeslots
    /\ UNCHANGED <<initialization_complete, state_lock, hass_states, tracking, data,
                   last_update_success, last_positive_trigger, threshold, options_lights,
                   historical_analysis_lock, cacheVars, prior_index, save_tasks,
                   now, debounceVars, last_call, storeVars>>

async_reset_teardown ==
    /\ pc["reset"] = "teardown"
    /\ tracking' = FALSE
    /\ timer_pending' = FALSE
    /\ execute_at_end' = FALSE
    /\ pc' = [pc EXCEPT !["reset"] = "idle"]
    /\ UNCHANGED <<initialization_complete, state_lock, hass_states, sensor_states, data,
                   last_update_success, learned_priors, last_positive_trigger, threshold,
                   options_lights, analysisVars, now, burst, last_call, historyVars, storeVars>>

(***************************************************************************)
(* The coordinator with its options updated and with resets, from an empty *)
(* store.                                                                  *)
(***************************************************************************)
InitOptions ==
    /\ Init
    /\ storage = AbsentBlob
    /\ threshold = 500
    /\ hass_states = [e \in HostEntities |-> IF e = "m1" THEN "off" ELSE "on"]

\* Here only the motion sensor changes state, between on and off.
NextOptions ==
    \/ async_load_stored_data
    \/ async_initialize_states
    \/ mark_initialization_complete
    \/ \E s \in {"on", "off"} : StateChanged("m1", s)
    \/ TimerFire
    \/ poll_refresh
    \/ \E v \in ThresholdInputs : async_update_threshold(v)
    \/ \E t \in Tasks : MinimalUpdate(t)
    \/ \E t \in Tasks : RefreshAcquire(t)
    \/ \E t \in Tasks : UpdateData(t)
    \/ \E o \in OptionsInputs : update_options(o)
    \/ async_reset
    \/ async_reset_teardown

SpecOptions == InitOptions /\ [][NextOptions]_vars

(***************************************************************************)
(* The same coordinator on a store whose learned priors hold an entry      *)
(* without prob_given_false for the motion sensor: the cycles that read it *)
(* end with UpdateFailed.                                                  *)
(***************************************************************************)
InitPoll ==
    /\ Init
    /\ storage = Blob("wrapped", <<>>, EmptyOccupancy, <<>>, <<>>,
                      [NoPriors EXCEPT !["m1"] = MalformedPrior], <<>>)
    /\ threshold = 500
    /\ hass_states = [e \in HostEntities |-> IF e = "m1" THEN "off" ELSE "on"]

SpecPoll == InitPoll /\ [][NextOptions]_vars

(***************************************************************************)
(* The calculator called directly: calculate on sensor states drawn from   *)
(* every combination of host states, with the state lock free, each        *)
(* result published as coordinator.data and so fed to the next call as     *)
(* the previous probability.  last_call keeps what the call read.          *)
(***************************************************************************)
CalcPriors ==
    {NoPriors,
     [NoPriors EXCEPT !["m1"] = GoodPrior],
     [NoPriors EXCEPT !["m1"] = MalformedPrior]}

RECURSIVE StatesFrom(_, _, _)
StatesFrom(hs, sensors, i) ==
    IF i > Len(sensors) THEN <<>>
    ELSE <<SensorRecord(sensors[i], hs[sensors[i]])>> \o StatesFrom(hs, sensors, i + 1)

InitCalc ==
    /\ pc = [t \in Tasks |-> IF t = "setup" THEN "initialized" ELSE "idle"]
    /\ options_lights = InitialLights
    /\ initialization_complete = FALSE
    /\ state_lock = "free"
    /\ hass_states = [e \in HostEntities |-> "off"]
    /\ tracking = TRUE
    /\ sensor_states = StatesFrom(hass_states, get_all_configured_sensors, 1)
    /\ data \in {<<>>, <<async_minimal_update(sensor_states)>>}
    /\ last_update_success = TRUE
    /\ learned_priors \in CalcPriors
    /\ last_positive_trigger = NoTime
    /\ threshold \in {Missing, 500}
    /\ now = 0
    /\ timer_pending = FALSE
    /\ execute_at_end = FALSE
    /\ burst = NoBurst
    /\ last_call = NoCall
    /\ storage = AbsentBlob
    /\ probability_history = <<>>
    /\ occupancy_history = EmptyOccupancy
    /\ last_occupied = NoTime
    /\ last_state_change = NoTime
    /\ last_save = 0
    /\ saved = <<>>
    /\ historical_analysis_ready = FALSE
    /\ historical_analysis_lock = "free"
    /\ timeslot_data = NoTimeslots
    /\ cache = NoCache
    /\ last_cache_update = NoTime
    /\ prior_index = 0
    /\ save_tasks = NoSaveTasks

CalcCall(hs) ==
    LET calc == calculate(StatesFrom(hs, get_all_configured_sensors, 1), current_slot,
                          data, learned_priors, last_positive_trigger, now, threshold,
                          LockFree(state_lock))
    IN  /\ hass_states' = [e \in HostEntities |->
                              IF e \in Entities THEN hs[e] ELSE hass_states[e]]
        /\ sensor_states' = StatesFrom(hs, get_all_configured_sensors, 1)
        /\ last_call' = [kind |-> calc.kind,
                         previous |-> previous_probability(data),
                         published |-> data # <<>>,
                         fed |-> last_call.kind = "ok",
                         trigger |-> last_positive_trigger]
        /\ data' = IF calc.kind = "ok" THEN calc.result ELSE data
        /\ last_positive_trigger' = calc.trigger
        /\ UNCHANGED <<pc, initialization_complete, state_lock, tracking,
                       last_update_success, learned_priors, threshold, options_lights, analysisVars, now, debounceVars,
                       historyVars, storeVars>>

\* The clock advances by d ticks of sixty seconds, up to limit.
Advance(d, limit) ==
    /\ now + d <= limit
    /\ now' = now + d
    /\ UNCHANGED <<pc, initialization_complete, state_lock, hass_states, tracking,
                   sensor_states, data, last_update_success, learned_priors,
                   last_positive_trigger, threshold, options_lights, analysisVars, debounceVars, last_call, historyVars,
                   storeVars>>

Tick == Advance(1, MaxTime)

NextCalc ==
    \/ \E hs \in [Entities -> HostStates] : CalcCall(hs)
    \/ Tick

SpecCalc == InitCalc /\ [][NextCalc]_vars

(***************************************************************************)
(* One refresh cycle as _async_update_data sequences it, for a caller that *)
(* does not hold the state lock when calculate takes it: calculate, then   *)
(* _update_historical_tracking and _save_data with its result.  The errors *)
(* of calculate and the KeyError of the tracking become UpdateFailed.  The *)
(* call records its outcome, its result and the tracked state it started   *)
(* from.                                                                   *)
(***************************************************************************)
MaxCycles == 2
Cycles == IF last_call.kind = "cycle" THEN last_call.n ELSE 0

Cycle(hs) ==
    LET states == StatesFrom(hs, get_all_configured_sensors, 1)
        calc == calculate(states, current_slot, data, learned_priors,
                          last_positive_trigger, now, threshold, LockFree(state_lock))
        failed == calc.kind = "error" \/ tracking_raises
    IN  /\ state_lock = "free"
        /\ Cycles < MaxCycles
        /\ hass_states' = [e \in HostEntities |->
                              IF e \in Entities THEN hs[e] ELSE hass_states[e]]
        /\ sensor_states' = states
        /\ last_positive_trigger' = calc.trigger
        /\ IF calc.kind = "error"
           THEN UNCHANGED historyVars
           ELSE update_historical_tracking(calc.result[1])
        /\ IF failed
           THEN UNCHANGED <<data, storage>>
           ELSE /\ save_data(calc.result[1])
                /\ data' = calc.result
        /\ last_update_success' = ~failed
        /\ last_call' = [kind |-> "cycle", n |-> Cycles + 1,
                         outcome |-> IF failed THEN "failed" ELSE "ok",
                         result |-> calc.result,
                         tracked |-> historyVars,
                         trigger |-> last_positive_trigger]
        /\ UNCHANGED <<pc, initialization_complete, state_lock, tracking, learned_priors,
                       threshold, options_lights, analysisVars, now, debounceVars,
                       last_save, saved>>

NextCycle ==
    \/ \E hs \in [Entities -> HostStates] : Cycle(hs)
    \/ Tick

SpecCycle == InitCalc /\ [][NextCycle]_vars

(***************************************************************************)
(* Persistence of the coordinator state: the fields are written by         *)
(* async_restore_state and update_learned_priors, saved by                 *)
(* async_save_state, and loaded by async_load_stored_data into a newly     *)
(* constructed coordinator.                                                *)
(***************************************************************************)
StateFields(ph, oh, lo, lsc, lp) ==
    [probability_history |-> ph, occupancy_history |-> oh, last_occupied |-> lo,
     last_state_change |-> lsc, learned_priors |-> lp]

\* get_storage_data: the fields at the top level of the dict, timestamps as ISO strings.
get_storage_data(f) ==
    Blob("flat", f.probability_history, f.occupancy_history, isoformat(f.last_occupied),
         isoformat(f.last_state_change), f.learned_priors, <<>>)

(***************************************************************************)
(* async_save_state for a coordinator whose fields are f: nothing is       *)
(* written within _save_interval of _last_save; else get_storage_data()    *)
(* is written and _last_save set, or the write fails and is logged.        *)
(***************************************************************************)
save_state(f) ==
    IF now - last_save < SaveInterval
    THEN UNCHANGED storeVars
    ELSE \/ /\ storage' = get_storage_data(f)
            /\ last_save' = now
            /\ saved' = <<f>>
         \/ UNCHANGED storeVars

async_save_state ==
    /\ pc["setup"] = "loaded"
    /\ save_state(StateFields(probability_history, occupancy_history, last_occupied,
                              last_state_change, learned_priors))
    /\ UNCHANGED <<pc, initialization_complete, state_lock, hass_states, tracking,
                   sensor_states, data, last_update_success, learned_priors,
                   last_positive_trigger, threshold, options_lights, analysisVars, now, debounceVars, last_call,
                   historyVars>>

\* The values update_learned_priors is called with.
PriorInputs == {GoodPrior}

\* update_learned_priors: the entry is written, and a task runs async_save_state.
update_learned_priors(entity_id, entry) ==
    /\ pc["setup"] = "loaded"
    /\ learned_priors' = [learned_priors EXCEPT ![entity_id] = entry]
    /\ save_state(StateFields(probability_history, occupancy_history, last_occupied,
                              last_state_change, learned_priors'))
    /\ UNCHANGED <<pc, initialization_complete, state_lock, hass_states, tracking,
                   sensor_states, data, last_update_success, last_positive_trigger,
                   threshold, options_lights, analysisVars, now, debounceVars, last_call, historyVars>>

\* The dicts async_restore_state is called with.
RestoreInputs ==
    {Blob("flat", <<6000, 7000>>, [EmptyOccupancy EXCEPT ![OccupancyHistoryMaxLen] = TRUE],
          isoformat(2), isoformat(1), [NoPriors EXCEPT !["m1"] = GoodPrior], <<>>),
     Blob("flat", <<3000>>, EmptyOccupancy, <<>>, isoformat(0), NoPriors, <<>>)}

async_restore_state(stored_data) ==
    /\ pc["setup"] = "loaded"
    /\ probability_history' =
           Deque(stored_data.probability_history, ProbabilityHistoryMaxLen)
    /\ occupancy_history' = Deque(stored_data.occupancy_history, OccupancyHistoryMaxLen)
    /\ last_occupied' = parse_datetime(stored_data.last_occupied)
    /\ last_state_change' = parse_datetime(stored_data.last_state_change)
    /\ learned_priors' = stored_data.learned_priors
    /\ UNCHANGED <<pc, initialization_complete, state_lock, hass_states, tracking,
                   sensor_states, data, last_update_success, last_positive_trigger,
                   threshold, options_lights, analysisVars, now, debounceVars, last_call, storeVars>>

\* AreaOccupancyCoordinator.__init__ of a new coordinator on the same store.
NewCoordinator ==
    /\ pc["setup"] = "loaded"
    /\ pc' = [pc EXCEPT !["setup"] = "constructed"]
    /\ probability_history' = <<>>
    /\ occupancy_history' = EmptyOccupancy
    /\ last_occupied' = NoTime
    /\ last_state_change' = NoTime
    /\ learned_priors' = NoPriors
    /\ last_save' = now
    /\ UNCHANGED <<initialization_complete, state_lock, hass_states, tracking,
                   sensor_states, data, last_update_success, last_positive_trigger,
                   threshold, options_lights, analysisVars, now, debounceVars, last_call, storage, saved>>

InitStore ==
    /\ pc = [t \in Tasks |-> IF t = "setup" THEN "constructed" ELSE "idle"]
    /\ initialization_complete = FALSE
    /\ state_lock = "free"
    /\ hass_states = [e \in HostEntities |-> "off"]
    /\ tracking = FALSE
    /\ sensor_states = <<>>
    /\ data = <<>>
    /\ last_update_success = TRUE
    /\ learned_priors = NoPriors
    /\ last_positive_trigger = NoTime
    /\ threshold = 500
    /\ options_lights = InitialLights
    /\ now = 0
    /\ timer_pending = FALSE
    /\ execute_at_end = FALSE
    /\ burst = NoBurst
    /\ last_call = NoCall
    /\ storage \in InitialBlobs
    /\ probability_history = <<>>
    /\ occupancy_history = EmptyOccupancy
    /\ last_occupied = NoTime
    /\ last_state_change = NoTime
    /\ last_save = 0
    /\ saved = <<>>
    /\ historical_analysis_ready = FALSE
    /\ historical_analysis_lock = "free"
    /\ timeslot_data = NoTimeslots
    /\ cache = NoCache
    /\ last_cache_update = NoTime
    /\ prior_index = 0
    /\ save_tasks = NoSaveTasks

\* Time passes for the store: a minute, or a whole save interval.
StoreTick == \E d \in {1, SaveInterval} : Advance(d, MaxStoreTime)

NextStore ==
    \/ async_load_stored_data
    \/ async_save_state
    \/ \E e \in Entities, entry \in PriorInputs : update_learned_priors(e, entry)
    \/ \E b \in RestoreInputs : async_restore_state(b)
    \/ NewCoordinator
    \/ StoreTick

SpecStore == InitStore /\ [][NextStore]_vars

(***************************************************************************)
(* The history buffers: samples are tracked one cycle at a time, and the   *)
(* buffers are replaced by loads, restores and resets.  last_call counts   *)
(* the samples and keeps the latest.                                       *)
(***************************************************************************)
SampleInputs == {3000, 8000}

\* Lists longer than the buffers: 13 probabilities, 289 occupancy samples.
LongProbabilities ==
    [i \in 1..(ProbabilityHistoryMaxLen + 1) |-> 1000 + 100 * (i - 1)]
LongOccupancy == EmptyOccupancy \o <<TRUE>>

HistoryRestoreInputs ==
    {Blob("flat", LongProbabilities, LongOccupancy, isoformat(0), isoformat(0),
          NoPriors, <<>>),
     Blob("flat", <<5000>>, EmptyOccupancy, <<>>, <<>>, NoPriors, <<>>)}

Samples == IF last_call.kind = "track" THEN last_call.n ELSE 0

\* One cycle's _update_historical_tracking, for a result of probability p.
TrackSample(p) ==
    /\ pc["setup"] \in {"loaded", "initialized"}
    /\ Samples < MaxSamples
    /\ update_historical_tracking([probability |-> p])
    /\ last_call' = [kind |-> "track", n |-> Samples + 1, probability |-> p]
    /\ UNCHANGED <<pc, initialization_complete, state_lock, hass_states, tracking,
                   sensor_states, data, last_update_success, learned_priors,
                   last_positive_trigger, threshold, options_lights, analysisVars, now, debounceVars,
                   storeVars>>

\* The threshold option is a percentage: 0.5 and 50 are the two configured here.
InitHistory ==
    /\ pc = [t \in Tasks |-> IF t = "setup" THEN "constructed" ELSE "idle"]
    /\ initialization_complete = FALSE
    /\ state_lock = "free"
    /\ hass_states = [e \in HostEntities |-> "off"]
    /\ tracking = FALSE
    /\ sensor_states = <<>>
    /\ data = <<>>
    /\ last_update_success = TRUE
    /\ learned_priors = NoPriors
    /\ last_positive_trigger = NoTime
    /\ threshold \in {5, 500}
    /\ options_lights = InitialLights
    /\ now = 0
    /\ timer_pending = FALSE
    /\ execute_at_end = FALSE
    /\ burst = NoBurst
    /\ last_call = NoCall
    /\ storage = AbsentBlob
    /\ probability_history = <<>>
    /\ occupancy_history = EmptyOccupancy
    /\ last_occupied = NoTime
    /\ last_state_change = NoTime
    /\ last_save = 0
    /\ saved = <<>>
    /\ historical_analysis_ready = FALSE
    /\ historical_analysis_lock = "free"
    /\ timeslot_data = NoTimeslots
    /\ cache = NoCache
    /\ last_cache_update = NoTime
    /\ prior_index = 0
    /\ save_tasks = NoSaveTasks

NextHistory ==
    \/ async_load_stored_data
    \/ NewCoordinator
    \/ \E b \in HistoryRestoreInputs : async_restore_state(b)
    \/ \E p \in SampleInputs : TrackSample(p)
    \/ async_initialize_states
    \/ async_reset
    \/ MinimalUpdate("reset")
    \/ async_reset_teardown
    \/ Advance(1, MaxTime)

SpecHistory == InitHistory /\ [][NextHistory]_vars

(***************************************************************************)
(* Historical analysis.  A recorded state is [last_changed, state]; a      *)
(* window is start < end; an interval is <<start, end, state>>, and the    *)
(* state None is "none".  Each behaviour makes one call.                   *)
(***************************************************************************)
RECURSIVE InsertSorted(_, _)
InsertSorted(sorted, s) ==
    IF sorted = <<>> THEN <<s>>
    ELSE IF sorted[Len(sorted)].last_changed <= s.last_changed
    THEN Append(sorted, s)
    ELSE Append(InsertSorted(SubSeq(sorted, 1, Len(sorted) - 1), s), sorted[Len(sorted)])

\* sorted(states, key=lambda s: s.last_changed): stable.
RECURSIVE sorted_states(_)
sorted_states(states) ==
    IF states = <<>> THEN <<>>
    ELSE InsertSorted(sorted_states(SubSeq(states, 1, Len(states) - 1)),
                      states[Len(states)])

\* The loop of _states_to_intervals over the sorted states.
RECURSIVE intervals_loop(_, _, _, _)
intervals_loop(sorted, i, start, acc) ==
    IF i > Len(sorted) THEN acc
    ELSE LET s_start == Max(sorted[i].last_changed, start)
         IN  intervals_loop(sorted, i + 1, start,
                 IF acc.current_state = "none"
                 THEN [acc EXCEPT !.current_state = sorted[i].state,
                                  !.current_start = s_start]
                 ELSE [intervals |->
                           IF s_start > acc.current_start
                           THEN Append(acc.intervals,
                                       <<acc.current_start, s_start, acc.current_state>>)
                           ELSE acc.intervals,
                       current_state |-> sorted[i].state,
                       current_start |-> s_start])

states_to_intervals(states, start, end) ==
    LET acc == intervals_loop(sorted_states(states), 1, start,
                   [intervals |-> <<>>, current_start |-> start, current_state |-> "none"])
    IN  IF acc.current_start < end
        THEN Append(acc.intervals, <<acc.current_start, end, acc.current_state>>)
        ELSE acc.intervals

\* The (start, end) pairs of the intervals of one state value.
RECURSIVE IntervalsOf(_, _)
IntervalsOf(intervals, state_val) ==
    IF intervals = <<>> THEN <<>>
    ELSE (IF intervals[1][3] = state_val
          THEN <<[last_changed |-> intervals[1][1], until |-> intervals[1][2]]>>
          ELSE <<>>)
         \o IntervalsOf(Tail(intervals), state_val)

\* The intervals of one state value of every sensor of motion_states, in the dict's order.
RECURSIVE MotionIntervals(_, _, _, _)
MotionIntervals(motion_states, state_val, start, end) ==
    IF motion_states = <<>> THEN <<>>
    ELSE IntervalsOf(states_to_intervals(motion_states[1], start, end), state_val)
         \o MotionIntervals(Tail(motion_states), state_val, start, end)

\* The merge loop of _combine_motion_intervals.
RECURSIVE merge_loop(_, _, _)
merge_loop(all_intervals, i, merged) ==
    IF i > Len(all_intervals) THEN merged
    ELSE LET interval == all_intervals[i]
         IN  merge_loop(all_intervals, i + 1,
                 IF merged = <<>> THEN <<interval>>
                 ELSE LET last == merged[Len(merged)]
                      IN  IF interval.last_changed <= last.until
                          THEN [merged EXCEPT ![Len(merged)] =
                                   [last_changed |-> last.last_changed,
                                    until |-> Max(last.until, interval.until)]]
                          ELSE Append(merged, interval))

combine_motion_intervals(motion_states, start, end) ==
    merge_loop(sorted_states(MotionIntervals(motion_states, "on", start, end)), 1, <<>>)

RECURSIVE TotalDuration(_)
TotalDuration(pairs) ==
    IF pairs = <<>> THEN 0
    ELSE (pairs[1].until - pairs[1].last_changed) + TotalDuration(Tail(pairs))

\* _compute_state_durations(...).get(state_val, 0.0)
compute_state_durations(states_dict, start_time, end_time, state_val) ==
    TotalDuration(MotionIntervals(states_dict, state_val, start_time, end_time))

RECURSIVE OverlapWith(_, _)
OverlapWith(e, motion_intervals) ==
    IF motion_intervals = <<>> THEN 0
    ELSE LET overlap_start == Max(e.last_changed, motion_intervals[1].last_changed)
             overlap_end == Min(e.until, motion_intervals[1].until)
         IN  (IF overlap_start < overlap_end THEN overlap_end - overlap_start ELSE 0)
             + OverlapWith(e, Tail(motion_intervals))

RECURSIVE OverlapDuration(_, _)
OverlapDuration(entity_intervals, motion_intervals) ==
    IF entity_intervals = <<>> THEN 0
    ELSE OverlapWith(entity_intervals[1], motion_intervals)
         + OverlapDuration(Tail(entity_intervals), motion_intervals)

\* _is_entity_active
is_entity_active(entity_id, state_val) ==
    state_val \in entity_active_states(category_of(entity_id))

\* The intervals of the entity in which it is active.
RECURSIVE ActiveIntervals(_, _)
ActiveIntervals(entity_id, intervals) ==
    IF intervals = <<>> THEN <<>>
    ELSE (IF is_entity_active(entity_id, intervals[1][3])
          THEN <<[last_changed |-> intervals[1][1], until |-> intervals[1][2]]>>
          ELSE <<>>)
         \o ActiveIntervals(entity_id, Tail(intervals))

calculate_conditional_probability(entity_id, entity_states, motion_states, motion_state_filter, start_time, end_time) ==
    LET motion_intervals ==
            MotionIntervals(motion_states, motion_state_filter, start_time, end_time)
        total_motion_duration == TotalDuration(motion_intervals)
        entity_intervals ==
            ActiveIntervals(entity_id,
                            states_to_intervals(entity_states, start_time, end_time))
    IN  IF total_motion_duration = 0
        THEN (IF motion_state_filter = "on"
              THEN DEFAULT_PROB_GIVEN_TRUE ELSE DEFAULT_PROB_GIVEN_FALSE)
        ELSE Clamp(Ratio(OverlapDuration(entity_intervals, motion_intervals),
                         total_motion_duration))

\* What the recorder answers for one entity: its states, or an error.
RecorderError == [ok |-> FALSE, states |-> <<>>]

\* _get_states_from_recorder: the states, or None (here <<>>) after an error.
get_states_from_recorder(recorder, entity_id) ==
    IF recorder[entity_id].ok THEN recorder[entity_id].states ELSE <<>>

\* motion_states: the histories of the motion sensors that have one.
RECURSIVE fetch_motion_states(_, _)
fetch_motion_states(recorder, i) ==
    IF i > Len(motion_sensors) THEN <<>>
    ELSE (IF get_states_from_recorder(recorder, motion_sensors[i]) # <<>>
          THEN <<get_states_from_recorder(recorder, motion_sensors[i])>>
          ELSE <<>>)
         \o fetch_motion_states(recorder, i + 1)

\* The triple calculate_prior returns when it falls back.
prior_fallback(entity_id) ==
    [learned |-> FALSE,
     triple |-> <<DEFAULT_PROB_GIVEN_TRUE, DEFAULT_PROB_GIVEN_FALSE,
                  get_default_prior(entity_id)>>]

\* calculate_prior once the histories are fetched: the fall-backs, else the learned triple.
prior_from_states(entity_id, entity_states, motion_states, start_time, end_time) ==
    LET total_motion_active_time ==
            compute_state_durations(motion_states, start_time, end_time, "on")
        total_motion_inactive_time ==
            compute_state_durations(motion_states, start_time, end_time, "off")
        total_motion_time == total_motion_active_time + total_motion_inactive_time
    IN  IF motion_states = <<>> THEN prior_fallback(entity_id)
        ELSE IF entity_states = <<>> THEN prior_fallback(entity_id)
        ELSE IF total_motion_time = 0 THEN prior_fallback(entity_id)
        ELSE [learned |-> TRUE,
              triple |-> <<calculate_conditional_probability(
                               entity_id, entity_states, motion_states, "on",
                               start_time, end_time),
                           calculate_conditional_probability(
                               entity_id, entity_states, motion_states, "off",
                               start_time, end_time),
                           Clamp(Ratio(total_motion_active_time, total_motion_time))>>]

calculate_prior(entity_id, recorder, start_time, end_time) ==
    prior_from_states(entity_id, get_states_from_recorder(recorder, entity_id),
                      fetch_motion_states(recorder, 1), start_time, end_time)

\* The windows, and the recorded states: before, inside and after a window.
WindowEnd == 2
Windows == {w \in (0..WindowEnd) \X (0..WindowEnd) : w[1] < w[2]}
RecordedStates ==
    [last_changed : (0 - 1)..(WindowEnd + 1), state : {"on", "off"}]

RECURSIVE ListsOf(_, _)
ListsOf(S, n) ==
    IF n = 0 THEN {<<>>}
    ELSE ListsOf(S, n - 1)
         \cup {Append(l, x) : l \in {l \in ListsOf(S, n - 1) : Len(l) = n - 1}, x \in S}

Recorders ==
    [Entities -> {RecorderError}
                 \cup {[ok |-> TRUE, states |-> l] :
                          l \in ListsOf({r \in RecordedStates : r.last_changed \in 0..WindowEnd},
                                        MaxPriorEvents)}]

CalculatePrior(entity_id, recorder, w) ==
    LET returned == calculate_prior(entity_id, recorder, w[1], w[2])
    IN  /\ last_call = NoCall
        /\ last_call' = [kind |-> "prior", entity_id |-> entity_id, recorder |-> recorder,
                          start_time |-> w[1], end_time |-> w[2], returned |-> returned]
        /\ IF returned.learned
           THEN /\ learned_priors' =
                       [learned_priors EXCEPT ![entity_id] =
                           <<[prob_given_true |-> returned.triple[1],
                              prob_given_false |-> returned.triple[2],
                              prior |-> returned.triple[3]]>>]
                /\ save_state(StateFields(probability_history, occupancy_history,
                                          last_occupied, last_state_change,
                                          learned_priors'))
           ELSE UNCHANGED <<learned_priors, storeVars>>
        /\ UNCHANGED <<pc, initialization_complete, state_lock, hass_states, tracking,
                       sensor_states, data, last_update_success, last_positive_trigger,
                       threshold, options_lights, analysisVars, now, debounceVars, historyVars>>

StatesToIntervals(states, w) ==
    /\ last_call = NoCall
    /\ last_call' = [kind |-> "intervals", states |-> states,
                     start |-> w[1], end |-> w[2],
                     intervals |-> states_to_intervals(states, w[1], w[2])]
    /\ UNCHANGED <<pc, initialization_complete, state_lock, hass_states, tracking,
                   sensor_states, data, last_update_success, learned_priors,
                   last_positive_trigger, threshold, options_lights, analysisVars, now, debounceVars,
                   historyVars, storeVars>>

CombineMotionIntervals(states, w) ==
    /\ last_call = NoCall
    /\ last_call' = [kind |-> "combine", states |-> states,
                     start |-> w[1], end |-> w[2],
                     merged |-> combine_motion_intervals(<<states>>, w[1], w[2])]
    /\ UNCHANGED <<pc, initialization_complete, state_lock, hass_states, tracking,
                   sensor_states, data, last_update_success, learned_priors,
                   last_positive_trigger, threshold, options_lights, analysisVars, now, debounceVars,
                   historyVars, storeVars>>

\* The histories of one entity as the recorder returns them for calculate_prior.
PriorHistories ==
    ListsOf({r \in RecordedStates : r.last_changed \in 0..WindowEnd}, MaxPriorEvents)

\* The histories with a state: the motion sensors that calculate_prior keeps.
RECURSIVE NonEmpty(_)
NonEmpty(lists) ==
    IF lists = <<>> THEN <<>>
    ELSE (IF lists[1] # <<>> THEN <<lists[1]>> ELSE <<>>) \o NonEmpty(Tail(lists))

\* calculate_prior of a light where two motion sensors are configured.
CalculatePriorOfTwo(entity_states, first_motion, second_motion, w) ==
    LET motion_states == NonEmpty(<<first_motion, second_motion>>)
        returned == prior_from_states("l1", entity_states, motion_states, w[1], w[2])
    IN  /\ last_call = NoCall
        /\ last_call' = [kind |-> "prior_of_two", entity_id |-> "l1",
                         entity_states |-> entity_states, motion_states |-> motion_states,
                         start_time |-> w[1], end_time |-> w[2], returned |-> returned]
        /\ IF returned.learned
           THEN /\ learned_priors' =
                       [learned_priors EXCEPT !["l1"] =
                           <<[prob_given_true |-> returned.triple[1],
                              prob_given_false |-> returned.triple[2],
                              prior |-> returned.triple[3]]>>]
                /\ save_state(StateFields(probability_history, occupancy_history,
                                          last_occupied, last_state_change,
                                          learned_priors'))
           ELSE UNCHANGED <<learned_priors, storeVars>>
        /\ UNCHANGED <<pc, initialization_complete, state_lock, hass_states, tracking,
                       sensor_states, data, last_update_success, last_positive_trigger,
                       threshold, options_lights, analysisVars, now, debounceVars, historyVars>>

\* The state values an entity may report.
StateValues == {"on", "off", "playing", "paused", "open", "closed", "idle", "unavailable"}

\* The three active predicates asked about one state of an entity of one category.
IsActive(category, state) ==
    /\ last_call = NoCall
    /\ last_call' = [kind |-> "active", category |-> category, state |-> state,
                     is_active_now |-> state \in active_now_states(category),
                     is_entity_active |-> state \in entity_active_states(category),
                     active_state |-> state \in configured_active_states(category)]
    /\ UNCHANGED <<pc, initialization_complete, state_lock, hass_states, tracking,
                   sensor_states, data, last_update_success, learned_priors,
                   last_positive_trigger, threshold, options_lights, analysisVars, now, debounceVars,
                   historyVars, storeVars>>

InitAnalysis ==
    /\ pc = [t \in Tasks |-> IF t = "setup" THEN "constructed" ELSE "idle"]
    /\ initialization_complete = FALSE
    /\ state_lock = "free"
    /\ hass_states = [e \in HostEntities |-> "off"]
    /\ tracking = FALSE
    /\ sensor_states = <<>>
    /\ data = <<>>
    /\ last_update_success = TRUE
    /\ learned_priors = NoPriors
    /\ last_positive_trigger = NoTime
    /\ threshold = 500
    /\ options_lights = InitialLights
    /\ now = 0
    /\ timer_pending = FALSE
    /\ execute_at_end = FALSE
    /\ burst = NoBurst
    /\ last_call = NoCall
    /\ storage = AbsentBlob
    /\ probability_history = <<>>
    /\ occupancy_history = EmptyOccupancy
    /\ last_occupied = NoTime
    /\ last_state_change = NoTime
    /\ last_save = 0
    /\ saved = <<>>
    /\ historical_analysis_ready = FALSE
    /\ historical_analysis_lock = "free"
    /\ timeslot_data = NoTimeslots
    /\ cache = NoCache
    /\ last_cache_update = NoTime
    /\ prior_index = 0
    /\ save_tasks = NoSaveTasks

NextAnalysis ==
    \/ \E e \in Entities, r \in Recorders, w \in Windows : CalculatePrior(e, r, w)
    \/ \E l \in ListsOf(RecordedStates, MaxEvents), w \in Windows : StatesToIntervals(l, w)
    \/ \E l \in ListsOf(RecordedStates, MaxEvents), w \in Windows :
           CombineMotionIntervals(l, w)
    \/ \E e \in PriorHistories, f \in PriorHistories, g \in PriorHistories, w \in Windows :
           CalculatePriorOfTwo(e, f, g, w)
    \/ \E c \in Categories, v \in StateValues : IsActive(c, v)

SpecAnalysis == InitAnalysis /\ [][NextAnalysis]_vars

(***************************************************************************)
(* The historical analysis.  Recorder times count half-hours from the      *)
(* start of the history period, which is one day of SlotCount slots; the   *)
(* window of slot k is [k, k + 1].                                         *)
(***************************************************************************)
CacheDuration == 360
HistoryPeriod == <<0, SlotCount>>

\* The recorder has a history for every entity, or answers with an error.
LearnRecorder ==
    [e \in Entities |-> [ok |-> TRUE, states |-> <<[last_changed |-> 0, state |-> "on"]>>]]
TaskRecorders == {LearnRecorder, [e \in Entities |-> RecorderError]}

\* The entry update_learned_priors writes for a triple.
prior_entry(triple) ==
    <<[prob_given_true |-> triple[1], prob_given_false |-> triple[2], prior |-> triple[3]]>>

\* _needs_cache_update
needs_cache_update(last_update, t) ==
    last_update = NoTime \/ t - last_update > CacheDuration

\* What calculate_prior returns for each entity over the history period and over each slot.
AnalysisWindows == {HistoryPeriod} \cup {<<k, k + 1>> : k \in SlotKeys}
prior_table(recorder) ==
    [c \in Entities \X AnalysisWindows |->
        calculate_prior(c[1], recorder, c[2][1], c[2][2])]

\* _process_timeslot for slot k: one entry per entity, the clamped average of its days.
slot_entry(priors_of, entity_id, k) ==
    LET returned == priors_of[<<entity_id, <<k, k + 1>>>>]
    IN  [id |-> entity_id,
         prob_given_true |-> Clamp(returned.triple[1]),
         prob_given_false |-> Clamp(returned.triple[2])]

process_timeslot(priors_of, entity_ids, k) ==
    [i \in 1..Len(entity_ids) |-> slot_entry(priors_of, entity_ids[i], k)]

\* The (slot, entity) pairs for which calculate_prior learns, so calls update_learned_priors.
learned_in_slots(priors_of, entity_ids) ==
    {c \in SlotKeys \X (1..Len(entity_ids)) :
        priors_of[<<entity_ids[c[2]], <<c[1], c[1] + 1>>>>].learned}

\* The learned priors once every slot is processed: the entry of the last slot that learned.
priors_after_slots(priors, priors_of, entity_ids) ==
    [e \in DOMAIN priors |->
        LET slots == {c[1] : c \in {d \in learned_in_slots(priors_of, entity_ids) :
                                        entity_ids[d[2]] = e}}
        IN  IF slots = {} THEN priors[e]
            ELSE LET k == CHOOSE j \in slots : \A l \in slots : l <= j
                 IN  prior_entry(priors_of[<<e, <<k, k + 1>>>>].triple)]

(***************************************************************************)
(* calculate_timeslots: within CACHE_DURATION of the last rebuild the      *)
(* _cache dict itself is returned, which has the slot keys at its top      *)
(* level; else every slot is processed and stored in _cache, and           *)
(* {"slots": timeslots, ...} is returned.                                  *)
(***************************************************************************)
calculate_timeslots(priors_of, entity_ids, t) ==
    IF ~needs_cache_update(last_cache_update, t)
    THEN [returned |-> [has_slots |-> FALSE, slots |-> cache],
          cache |-> cache, last_cache_update |-> last_cache_update,
          priors |-> learned_priors, created |-> 0]
    ELSE LET timeslots == [k \in SlotKeys |-> process_timeslot(priors_of, entity_ids, k)]
         IN  [returned |-> [has_slots |-> TRUE, slots |-> timeslots],
              cache |-> timeslots, last_cache_update |-> t,
              priors |-> priors_after_slots(learned_priors, priors_of, entity_ids),
              created |-> Cardinality(learned_in_slots(priors_of, entity_ids))]

(***************************************************************************)
(* The async_save_state tasks update_learned_priors creates.  A task first *)
(* compares the clock with _last_save and ends when the interval has not   *)
(* passed; else it writes under the storage lock and then sets _last_save  *)
(* to the time of its comparison.  save_tasks counts the tasks created and *)
(* lists the comparison times of those that are writing or waiting for the *)
(* storage lock.  A write records its time and the time of the write       *)
(* before it.                                                              *)
(***************************************************************************)
MaxSaveTasks == SlotCount * Len(AddedLights)
create_tasks(tasks, n) == [tasks EXCEPT !.created = @ + n]
pending_tasks(tasks) == tasks.created + Len(tasks.checked)

store_write(f, at) ==
    /\ storage' = get_storage_data(f)
    /\ last_save' = at
    /\ saved' = <<f>>
    /\ last_call' = [kind |-> "write", at |-> now,
                     since |-> IF last_call.kind = "write" THEN last_call.at ELSE NoTime]

SaveTaskCheck ==
    /\ save_tasks.created > 0
    /\ save_tasks' =
           [created |-> save_tasks.created - 1,
            checked |-> IF now - last_save < SaveInterval THEN save_tasks.checked
                        ELSE Append(save_tasks.checked, now)]
    /\ UNCHANGED <<pc, initialization_complete, state_lock, hass_states, tracking,
                   sensor_states, data, last_update_success, learned_priors,
                   last_positive_trigger, threshold, options_lights,
                   historical_analysis_ready, historical_analysis_lock, timeslot_data,
                   cacheVars, prior_index, now, debounceVars, last_call, historyVars,
                   storeVars>>

SaveTaskWrite ==
    /\ save_tasks.checked # <<>>
    /\ save_tasks' = [save_tasks EXCEPT !.checked = Tail(@)]
    /\ \/ store_write(StateFields(probability_history, occupancy_history, last_occupied,
                                  last_state_change, learned_priors),
                      Head(save_tasks.checked))
       \/ UNCHANGED <<storeVars, last_call>>
    /\ UNCHANGED <<pc, initialization_complete, state_lock, hass_states, tracking,
                   sensor_states, data, last_update_success, learned_priors,
                   last_positive_trigger, threshold, options_lights,
                   historical_analysis_ready, historical_analysis_lock, timeslot_data,
                   cacheVars, prior_index, now, debounceVars, historyVars>>

(***************************************************************************)
(* _async_historical_analysis, called while the historical-analysis lock   *)
(* is free: it takes the lock, stores what calculate_timeslots returns in  *)
(* _timeslot_data, sets _historical_analysis_ready and releases the lock.  *)
(***************************************************************************)
historical_analysis(priors_of) ==
    LET t == calculate_timeslots(priors_of, get_all_configured_sensors, now)
    IN  /\ pending_tasks(save_tasks) + t.created <= MaxSaveTasks
        /\ timeslot_data' = t.returned
        /\ cache' = t.cache
        /\ last_cache_update' = t.last_cache_update
        /\ learned_priors' = t.priors
        /\ save_tasks' = create_tasks(save_tasks, t.created)
        /\ historical_analysis_ready' = TRUE

async_historical_analysis(recorder) ==
    /\ pc["analysis"] = "idle"
    /\ LockFree(historical_analysis_lock)
    /\ historical_analysis(prior_table(recorder))
    /\ UNCHANGED <<pc, initialization_complete, state_lock, hass_states, tracking,
                   sensor_states, data, last_update_success, last_positive_trigger,
                   threshold, options_lights, historical_analysis_lock, prior_index, now,
                   debounceVars, last_call, historyVars, storeVars>>

(***************************************************************************)
(* async_run_historical_analysis_task, one step at a time.  It takes the   *)
(* historical-analysis lock; _compute_initial_priors calls calculate_prior *)
(* for one sensor after the other, each of which writes its learned prior  *)
(* and creates a save task, then awaits async_save_state; then             *)
(* _async_historical_analysis takes the historical-analysis lock, which    *)
(* the task still holds; after it come async_refresh and the release of    *)
(* the lock.                                                               *)
(***************************************************************************)
async_run_historical_analysis_task(recorder) ==
    LET sensor_ids == get_all_configured_sensors
        priors_of == prior_table(recorder)
        position == pc["analysis"]
        steady == <<initialization_complete, state_lock, hass_states, tracking,
                    sensor_states, data, last_update_success, last_positive_trigger,
                    threshold, options_lights, now, debounceVars, historyVars>>
    IN  CASE position = "idle" ->
                 /\ LockFree(historical_analysis_lock)
                 /\ historical_analysis_lock' = "analysis"
                 /\ prior_index' = 0
                 /\ pc' = [pc EXCEPT !["analysis"] = "priors"]
                 /\ UNCHANGED <<steady, learned_priors, historical_analysis_ready,
                                timeslot_data, cacheVars, save_tasks, last_call, storeVars>>
          [] position = "priors" /\ prior_index < Len(sensor_ids) ->
                 LET entity_id == sensor_ids[prior_index + 1]
                     returned == priors_of[<<entity_id, HistoryPeriod>>]
                 IN  /\ returned.learned => pending_tasks(save_tasks) < MaxSaveTasks
                     /\ learned_priors' =
                            IF returned.learned
                            THEN [learned_priors EXCEPT
                                      ![entity_id] = prior_entry(returned.triple)]
                            ELSE learned_priors
                     /\ save_tasks' = IF returned.learned
                                      THEN create_tasks(save_tasks, 1) ELSE save_tasks
                     /\ prior_index' = prior_index + 1
                     /\ UNCHANGED <<steady, pc, historical_analysis_ready,
                                    historical_analysis_lock, timeslot_data, cacheVars,
                                    last_call, storeVars>>
          [] position = "priors" /\ prior_index >= Len(sensor_ids) ->
                 /\ IF now - last_save < SaveInterval
                    THEN UNCHANGED <<storeVars, last_call>>
                    ELSE \/ store_write(StateFields(probability_history, occupancy_history,
                                                    last_occupied, last_state_change,
                                                    learned_priors), now)
                         \/ UNCHANGED <<storeVars, last_call>>
                 /\ prior_index' = 0
                 /\ pc' = [pc EXCEPT !["analysis"] = "analysis_lock"]
                 /\ UNCHANGED <<steady, learned_priors, historical_analysis_ready,
                                historical_analysis_lock, timeslot_data, cacheVars,
                                save_tasks>>
          [] position = "analysis_lock" ->
                 /\ LockFree(historical_analysis_lock)
                 /\ historical_analysis(priors_of)
                 /\ pc' = [pc EXCEPT !["analysis"] = refresh_entry]
                 /\ UNCHANGED <<steady, historical_analysis_lock, prior_index, last_call,
                                storeVars>>
          [] position = "release" ->
                 /\ historical_analysis_lock' = "free"
                 /\ pc' = [pc EXCEPT !["analysis"] = "idle"]
                 /\ UNCHANGED <<steady, learned_priors, historical_analysis_ready,
                                timeslot_data, cacheVars, prior_index, save_tasks,
                                last_call, storeVars>>
          [] OTHER -> FALSE

\* The coordinator was constructed SaveInterval ago and has its sensor states;
\* it has no learned priors, or the one for m1 that the store held.
InitTask ==
    /\ pc = [t \in Tasks |-> IF t = "setup" THEN "initialized" ELSE "idle"]
    /\ options_lights = InitialLights
    /\ initialization_complete = FALSE
    /\ state_lock = "free"
    /\ hass_states = [e \in HostEntities |-> "off"]
    /\ tracking = TRUE
    /\ sensor_states = StatesFrom(hass_states, get_all_configured_sensors, 1)
    /\ data = <<>>
    /\ last_update_success = TRUE
    /\ learned_priors \in {NoPriors, [NoPriors EXCEPT !["m1"] = GoodPrior]}
    /\ last_positive_trigger = NoTime
    /\ threshold = 500
    /\ now = SaveInterval
    /\ timer_pending = FALSE
    /\ execute_at_end = FALSE
    /\ burst = NoBurst
    /\ last_call = NoCall
    /\ storage = AbsentBlob
    /\ probability_history = <<>>
    /\ occupancy_history = EmptyOccupancy
    /\ last_occupied = NoTime
    /\ last_state_change = NoTime
    /\ last_save = 0
    /\ saved = <<>>
    /\ historical_analysis_ready = FALSE
    /\ historical_analysis_lock = "free"
    /\ timeslot_data = NoTimeslots
    /\ cache = NoCache
    /\ last_cache_update = NoTime
    /\ prior_index = 0
    /\ save_tasks = NoSaveTasks

NextTask ==
    \/ \E r \in TaskRecorders : async_run_historical_analysis_task(r)
    \/ \E r \in TaskRecorders : async_historical_analysis(r)
    \/ SaveTaskCheck
    \/ SaveTaskWrite
    \/ Advance(1, MaxStoreTime)

SpecTask == InitTask /\ [][NextTask]_vars

(***************************************************************************)
(* calculate called with the slot the coordinator looks up, before and     *)
(* after historical analyses.                                              *)
(***************************************************************************)
NextSlot ==
    \/ \E r \in TaskRecorders : async_historical_analysis(r)
    \/ \E hs \in [Entities -> HostStates] : CalcCall(hs)
    \/ SaveTaskCheck
    \/ SaveTaskWrite

SpecSlot == InitTask /\ [][NextSlot]_vars

(***************************************************************************)
(* Properties.                                                             *)
(***************************************************************************)
InRange(p) == MIN_PROBABILITY <= p /\ p <= MAX_PROBABILITY

Published == data # <<>>

\* A refresh is under way in task t.
InRefresh(t) == pc[t] \in {"minimal_lock", "refresh_lock", "update_data", "trigger_lock"}

\* Some refresh can take its next step.
RefreshStep == \E u \in Tasks : MinimalUpdate(u) \/ RefreshAcquire(u) \/ UpdateData(u)

NoSensorActive ==
    \A i \in 1..Len(sensor_states) :
        ~(sensor_states[i].availability
          /\ is_active_now(sensor_states[i].id, sensor_states[i].state))

MotionOnly ==
    /\ \E i \in 1..Len(sensor_states) :
          /\ sensor_states[i].id = "m1"
          /\ sensor_states[i].availability
          /\ sensor_states[i].state = "on"
    /\ \A i \in 1..Len(sensor_states) :
          sensor_states[i].id # "m1" =>
              ~(sensor_states[i].availability
                /\ is_active_now(sensor_states[i].id, sensor_states[i].state))

AllUnavailable ==
    /\ sensor_states # <<>>
    /\ \A i \in 1..Len(sensor_states) : ~sensor_states[i].availability

Called == last_call.kind # "none"
Returned == last_call.kind = "ok"

\* C1: every probability that is published or stored lies in [0.01, 0.99]: the
\* published result's probability, every sensor_probabilities entry, every
\* probability-history entry, and the fields every learned prior has.
C1_ProbabilitiesInRange ==
    /\ Published =>
          /\ InRange(data[1].probability)
          /\ \A i \in 1..Len(data[1].sensor_probabilities) :
                InRange(data[1].sensor_probabilities[i].probability)
    /\ \A i \in 1..Len(probability_history) : InRange(probability_history[i])
    /\ \A e \in Entities :
          learned_priors[e] # <<>> =>
              /\ InRange(learned_priors[e][1].prob_given_true)
              /\ learned_priors[e][1].prob_given_false # Missing =>
                    InRange(learned_priors[e][1].prob_given_false)
              /\ learned_priors[e][1].prior # Missing =>
                    InRange(learned_priors[e][1].prior)

\* C2: once initialization is complete, a refresh that is under way can always
\* take its next step towards its end: no refresh waits for a state lock that
\* will never be released.
C2_RefreshCompletes ==
    (initialization_complete /\ \E t \in Tasks : InRefresh(t)) => ENABLED RefreshStep

\* C3: a calculate that returns with the motion sensor available and ON (and no
\* other sensor active) returns a probability not below the previous one,
\* active_triggers equal to the list of that sensor, and is_occupied true
\* whenever the threshold is at most the returned probability.
C3_MotionRaises ==
    (Returned /\ MotionOnly) =>
        /\ data[1].probability >= last_call.previous
        /\ data[1].active_triggers = <<"m1">>
        /\ (get_threshold_decimal(threshold) <= data[1].probability
               => data[1].is_occupied)

\* C4: with no sensor active and no decay elapsed (no last positive trigger, or
\* an elapsed time not above the minimum delay), a calculate fed the result of
\* the calculate before it returns the same probability.
C4_Idempotent ==
    (/\ Returned
     /\ last_call.fed
     /\ NoSensorActive
     /\ \/ last_call.trigger = NoTime
        \/ now - last_call.trigger <= get_decay_min_delay)
    => data[1].probability = last_call.previous

\* C4, its case: a second calculate exactly the minimum delay after the last
\* positive trigger, no sensor active, returning the probability it was fed.
C4_Witness ==
    /\ Returned
    /\ last_call.fed
    /\ NoSensorActive
    /\ last_call.trigger # NoTime
    /\ now - last_call.trigger = get_decay_min_delay
    /\ data[1].probability = last_call.previous
    /\ data[1].probability > MIN_PROBABILITY

\* C5: a calculate with no sensor active returns a probability not above the
\* probability that was published before it.
C5_NonIncreasing ==
    (Returned /\ last_call.published /\ NoSensorActive) =>
        data[1].probability <= last_call.previous

\* C6 as stated: with every configured sensor unavailable, calculate raises no
\* exception, reports every sensor unavailable, and reports is_occupied false.
C6_UnavailableNeverOccupied ==
    (Called /\ AllUnavailable) =>
        /\ Returned
        /\ \A i \in 1..Len(data[1].sensor_availability) :
              ~data[1].sensor_availability[i].availability
        /\ ~data[1].is_occupied

\* C6 amended: with every configured sensor unavailable, calculate raises no
\* exception, reports every sensor unavailable and no active trigger, and
\* reports is_occupied false whenever the previous probability, clamped to
\* [0.01, 0.99], is below the threshold.
C6_UnavailableKeepsPrevious ==
    (Called /\ AllUnavailable) =>
        /\ Returned
        /\ \A i \in 1..Len(data[1].sensor_availability) :
              ~data[1].sensor_availability[i].availability
        /\ data[1].active_triggers = <<>>
        /\ (Clamp(last_call.previous) < get_threshold_decimal(threshold)
               => ~data[1].is_occupied)

\* C6, its case: every sensor unavailable, a stored prior that could not be
\* read, and a result that is still occupied from the probability before.
C6_Witness ==
    /\ Returned
    /\ AllUnavailable
    /\ threshold = 500
    /\ data[1].is_occupied
    /\ \A i \in 1..Len(data[1].sensor_availability) :
          ~data[1].sensor_availability[i].availability

\* C7: while a task holds the state lock, no step writes the sensor-state map,
\* the last positive trigger or the learned priors.
C7_WritesUnderLock ==
    [][(state_lock # "free" /\ state_lock' = state_lock) =>
          /\ sensor_states' = sensor_states
          /\ last_positive_trigger' = last_positive_trigger
          /\ learned_priors' = learned_priors]_vars

C9_RoundTrip ==
    [][(/\ pc["setup"] = "constructed"
        /\ pc'["setup"] = "loaded"
        /\ saved # <<>>
        /\ storage = get_storage_data(saved[1]))
       => StateFields(probability_history', occupancy_history', last_occupied',
                      last_state_change', learned_priors') = saved[1]]_vars

\* C10: after a cycle has ended in an update-failed outcome, a poll cycle that
\* has been started can run.
C10_NextCycleRuns ==
    (~last_update_success /\ pc["poll"] # "idle") => ENABLED UpdateData("poll")

\* The state _reset_state leaves, and __init__ before it.
EmptyState ==
    /\ probability_history = <<>>
    /\ occupancy_history = EmptyOccupancy
    /\ last_occupied = NoTime
    /\ last_state_change = NoTime
    /\ learned_priors = NoPriors

\* C11: when the store holds nothing, or a blob that cannot be loaded (any blob
\* but a dict whose "data" key holds well-formed fields), async_load_stored_data
\* does not raise, leaves the coordinator in the empty state, and setup goes on
\* to the initialization of the sensor states.
C11_LoadFallsBack ==
    [][(/\ pc["setup"] = "constructed"
        /\ pc'["setup"] # "constructed"
        /\ storage.kind # "wrapped")
       => /\ pc'["setup"] = "loaded"
          /\ EmptyState']_vars

\* The threshold option as a percentage in tenths, the default when it is not set.
ThresholdTenths == IF threshold = Missing THEN DEFAULT_THRESHOLD ELSE threshold

\* C12: in every result calculate returns, is_occupied is true exactly when the
\* final probability is at least the threshold percentage divided by 100.
C12_OccupiedIffAtThreshold ==
    Returned => (data[1].is_occupied <=> data[1].probability * 100 >= ThresholdTenths * 1000)

\* C12, its case: a result whose probability has been decayed and is still at
\* or above a threshold of 50 percent, reported occupied.
C12_Witness ==
    /\ Returned
    /\ threshold = 500
    /\ data[1].decay_status > 0
    /\ data[1].probability >= 5000
    /\ data[1].is_occupied

\* A buffer of at most n items after one more item: the oldest has gone if it was full.
Pushed(buffer, item, n) ==
    (IF Len(buffer) >= n THEN SubSeq(buffer, Len(buffer) - n + 2, Len(buffer)) ELSE buffer)
    \o <<item>>

\* C13: the probability history never holds more than 12 entries and the
\* occupancy history never more than 288; a tracked sample is appended at the
\* end of each buffer, and the oldest entry of a full buffer is the one that
\* goes.
C13_BoundedHistories ==
    /\ [](/\ Len(probability_history) <= ProbabilityHistoryMaxLen
          /\ Len(occupancy_history) <= OccupancyHistoryMaxLen)
    /\ [][last_call' # last_call =>
            /\ probability_history' =
                   Pushed(probability_history, last_call'.probability,
                          ProbabilityHistoryMaxLen)
            /\ occupancy_history' =
                   Pushed(occupancy_history,
                          last_call'.probability >= threshold * 1000,
                          OccupancyHistoryMaxLen)]_vars

\* C13, its case: thirteen probabilities restored into the buffer of twelve,
\* then two samples tracked: the buffer holds the last ten restored ones and
\* the two samples, in order.
C13_Witness ==
    /\ last_call.kind = "track"
    /\ probability_history =
           SubSeq(LongProbabilities, 4, 13) \o <<8000, 3000>>
    /\ SubSeq(occupancy_history, OccupancyHistoryMaxLen - 2, OccupancyHistoryMaxLen) =
           <<TRUE, TRUE, FALSE>>

\* The store holds, for entity e, the record of the host's state hs of e.
StoreCurrent(store, e, hs) ==
    \E i \in 1..Len(store) : store[i] = SensorRecord(e, hs[e])

\* C14: when a poll cycle ends, the stored state and availability of every
\* configured entity are those of the host's current state of that entity.
C14_PollKeepsStoreCurrent ==
    [][(pc["poll"] = "update_data" /\ pc'["poll"] = "idle") =>
          \A i \in 1..Len(motion_sensors \o options_lights') :
              StoreCurrent(sensor_states', (motion_sensors \o options_lights')[i],
                           hass_states')]_vars

\* The cases in which calculate_prior is to fall back: no motion history, no
\* history of the entity, a motion history of no duration, a failed query.
PriorFallsBack ==
    /\ last_call.kind = "prior"
    /\ LET motion == fetch_motion_states(last_call.recorder, 1)
       IN  \/ motion = <<>>
           \/ get_states_from_recorder(last_call.recorder, last_call.entity_id) = <<>>
           \/ compute_state_durations(motion, last_call.start_time, last_call.end_time, "on")
              + compute_state_durations(motion, last_call.start_time, last_call.end_time, "off")
              = 0
           \/ ~last_call.recorder[last_call.entity_id].ok
           \/ \E i \in 1..Len(motion_sensors) : ~last_call.recorder[motion_sensors[i]].ok

\* C15: in the fall-back cases calculate_prior returns the default triple of
\* the entity's category: the category's prob_given_true and prob_given_false
\* and the category's prior.
C15_CategoryDefaults ==
    PriorFallsBack =>
        last_call.returned.triple =
            get_sensor_priors(last_call.entity_id)
            \o <<get_default_prior(last_call.entity_id)>>

\* C16: the intervals _states_to_intervals returns for a window are
\* time-ordered and pairwise non-overlapping, lie inside the window and cover
\* it exactly; no states give no interval, and one state that holds from the
\* window's start gives one interval spanning the window.
C16_IntervalsCoverWindow ==
    last_call.kind = "intervals" =>
        LET iv == last_call.intervals
            n == Len(iv)
        IN  /\ \A i \in 1..n : last_call.start <= iv[i][1] /\ iv[i][2] <= last_call.end
            /\ \A i \in 1..(n - 1) : iv[i][2] = iv[i + 1][1]
            /\ last_call.states = <<>> => n = 0
            /\ last_call.states # <<>> =>
                   /\ n > 0
                   /\ iv[1][1] = last_call.start
                   /\ iv[n][2] = last_call.end
            /\ (/\ Len(last_call.states) = 1
                /\ last_call.states[1].last_changed <= last_call.start) =>
                   iv = <<<<last_call.start, last_call.end, last_call.states[1].state>>>>

\* The tasks that call async_refresh (the poll calls _async_update_data itself).
RefreshTasks == Tasks \ {"poll"}

\* C17: the lifecycle goes one way.  Sensor states are initialized only after
\* the stored data was loaded, and initialization is marked complete only after
\* that; while it is not complete no refresh is in the full branch, and a
\* refresh that ends publishes the minimal result (no triggers, not occupied)
\* and leaves the history buffers alone; once complete, it stays complete
\* through refreshes, options updates, threshold updates and resets.
C17_LifecycleOneWay ==
    /\ [](initialization_complete =>
             pc["setup"] \in {"refresh_lock", "update_data", "trigger_lock", "done"})
    /\ [][(pc["setup"] # "initialized" /\ pc'["setup"] = "initialized") =>
             pc["setup"] = "loaded"]_vars
    /\ [](~initialization_complete =>
             \A t \in RefreshTasks :
                 pc[t] \notin {"refresh_lock", "update_data", "trigger_lock"})
    /\ [][\A t \in RefreshTasks :
             (pc[t] = "minimal_lock" /\ pc'[t] # "minimal_lock") =>
                 /\ data' = <<async_minimal_update(sensor_states)>>
                 /\ data'[1].active_triggers = <<>>
                 /\ ~data'[1].is_occupied
                 /\ UNCHANGED historyVars]_vars
    /\ [][initialization_complete => initialization_complete']_vars

\* C17, its case: initialization is complete, the minimal result of a refresh
\* from before is still the published one, and since then the options were
\* updated and a reset has cleared the state and called its refresh.
C17_Witness ==
    /\ initialization_complete
    /\ Published
    /\ data[1].probability = 0
    /\ threshold = 700
    /\ pc["reset"] \in {"refresh_lock", "update_data", "trigger_lock"}
    /\ sensor_states = <<>>

\* C18: the configured threshold changes only to a value in 0..100, and with
\* the change a refresh is triggered; a rejected value changes nothing and
\* triggers no refresh; the triggered refresh does not wait for a lock it holds
\* itself, and when it ends with a result, is_occupied is the comparison of the
\* probability with the new threshold.
C18_ThresholdUpdate ==
    /\ [][threshold' # threshold =>
             /\ 0 <= threshold' /\ threshold' <= 1000
             /\ pc["service"] = "idle"
             /\ InRefresh("service")']_vars
    /\ [][(pc["service"] = "idle" /\ pc'["service"] # "idle") =>
             threshold' \in ThresholdInputs /\ threshold' <= 1000]_vars
    /\ []((pc["service"] = "update_data" /\ state_lock = "service") =>
             ENABLED UpdateData("service"))
    /\ [][(InRefresh("service") /\ pc'["service"] = "idle" /\ last_update_success') =>
             data'[1].is_occupied =
                 (data'[1].probability >= get_threshold_decimal(threshold'))]_vars

\* The posterior after folding the active sensors of states from i on into p,
\* each update taking the running value as its prior.
RECURSIVE SequentialPosterior(_, _, _)
SequentialPosterior(states, i, p) ==
    IF i > Len(states) THEN p
    ELSE LET s == states[i]
             tr == resolve_priors(learned_priors, s.id, current_slot)
         IN  SequentialPosterior(states, i + 1,
                 IF s.availability /\ is_active_now(s.id, s.state)
                 THEN update_probability(p, tr[1], tr[2])
                 ELSE p)

\* C19: a calculate that returns with at least one active sensor returns the
\* probability obtained by folding the active sensors, in order, into the
\* previous probability (the default prior when there is none), each Bayesian
\* update taking the running posterior as its prior; the value recorded for a
\* sensor is the running value after it.
C19_SequentialFold ==
    (Returned /\ ~NoSensorActive) =>
        /\ data[1].probability =
               Clamp(SequentialPosterior(sensor_states, 1, last_call.previous))
        /\ \A k \in 1..Len(data[1].sensor_probabilities) :
               \E i \in 1..Len(sensor_states) :
                   /\ sensor_states[i].id = data[1].sensor_probabilities[k].id
                   /\ data[1].sensor_probabilities[k].probability =
                          SequentialPosterior(SubSeq(sensor_states, 1, i), 1,
                                              last_call.previous)

\* C20: in a calculate that returns, decay is applied exactly when no sensor
\* is active, a last positive trigger exists and the time elapsed since it
\* exceeds the minimum delay (the decay window being positive); with a sensor
\* active no decay is applied, the reported decay is 0 and the last positive
\* trigger becomes the current time; with no sensor active the last positive
\* trigger is left as it was.
C20_DecayConditions ==
    [][(now' = now /\ last_call'.kind = "ok") =>
          LET active == ~NoSensorActive'
              elapsed == now - last_positive_trigger
              due == /\ ~active
                     /\ last_positive_trigger # NoTime
                     /\ elapsed > get_decay_min_delay
                     /\ get_decay_window > 0
              undecayed == Clamp(previous_probability(data))
          IN  /\ (data'[1].decay_status # 0) <=> due
              /\ due => data'[1].probability = Clamp(FixMul(undecayed, decay_factor(elapsed)))
              /\ (~active /\ ~due) => data'[1].probability = undecayed
              /\ active => /\ data'[1].decay_status = 0
                           /\ last_positive_trigger' = now
              /\ ~active => last_positive_trigger' = last_positive_trigger]_vars

\* C20, its case: a calculate with no sensor active, later than the minimum
\* delay after the last positive trigger, has returned a decayed probability.
C20_Witness ==
    /\ Returned
    /\ NoSensorActive
    /\ last_positive_trigger # NoTime
    /\ now - last_positive_trigger > get_decay_min_delay
    /\ data[1].decay_status > 0
    /\ data[1].probability < last_call.previous

\* The Prior Store entry that holds a resolved triple.
PriorEntry(tr) == <<[prob_given_true |-> tr[1], prob_given_false |-> tr[2], prior |-> tr[3]]>>

\* C22: after a calculate that returns, the Prior Store holds, for every
\* available sensor of the cycle, the (p_true, p_false, prior) triple the
\* cycle resolved for it.
C22_PriorsWrittenBack ==
    Returned =>
        \A i \in 1..Len(sensor_states) :
            sensor_states[i].availability =>
                learned_priors[sensor_states[i].id] =
                    PriorEntry(resolve_priors(learned_priors, sensor_states[i].id,
                                              current_slot))

\* The unit cells [k, k + 1) that some interval of pairs covers.
Cells(pairs) ==
    {k \in (0 - 1)..(WindowEnd + 1) :
        \E i \in 1..Len(pairs) : pairs[i].last_changed <= k /\ k + 1 <= pairs[i].until}

\* C23: with two motion sensors, the prior and prob_given_true that
\* calculate_prior learns are those of the union timeline: the prior is the
\* time some motion sensor is ON over the time some motion sensor reports ON or
\* OFF, and prob_given_true is the part of the motion-ON time in which the
\* entity is active; time in which both sensors are ON counts once.
C23_UnionTimeline ==
    (last_call.kind = "prior_of_two" /\ last_call.returned.learned) =>
        LET on == Cells(MotionIntervals(last_call.motion_states, "on",
                                        last_call.start_time, last_call.end_time))
            off == Cells(MotionIntervals(last_call.motion_states, "off",
                                         last_call.start_time, last_call.end_time)) \ on
            active == Cells(ActiveIntervals("l1",
                                states_to_intervals(last_call.entity_states,
                                                    last_call.start_time,
                                                    last_call.end_time)))
        IN  /\ last_call.returned.triple[3] =
                   Clamp(Ratio(Cardinality(on), Cardinality(on) + Cardinality(off)))
            /\ last_call.returned.triple[1] =
                   IF on = {} THEN DEFAULT_PROB_GIVEN_TRUE
                   ELSE Clamp(Ratio(Cardinality(active \cap on), Cardinality(on)))

\* C28: for every category and every state value, the live calculation's
\* predicate, the predicate used when learning from history and the category's
\* configured active states agree on whether the state is active.
C28_OneActiveConvention ==
    last_call.kind = "active" =>
        /\ last_call.is_active_now = last_call.is_entity_active
        /\ last_call.is_active_now = last_call.active_state


\* C29: the boolean a refresh cycle appends to the occupancy history equals the
\* is_occupied of the result that cycle returned.
C29_TrackedAsResult ==
    (last_call.kind = "cycle" /\ last_call.outcome = "ok") =>
        occupancy_history[Len(occupancy_history)] = last_call.result[1].is_occupied

\* C30: after a refresh cycle that ended in UpdateFailed, the probability history,
\* the occupancy history, last_occupied, last_state_change and the last positive
\* trigger are what they were before the cycle.
C30_FailedCycleChangesNothing ==
    (last_call.kind = "cycle" /\ last_call.outcome = "failed") =>
        /\ historyVars = last_call.tracked
        /\ last_positive_trigger = last_call.trigger


\* C24: once the timeslot data has been rebuilt, every historical analysis that runs
\* within CACHE_DURATION of the rebuild leaves the coordinator with the data the
\* rebuild returned, in the same structure, so the lookup of the current slot
\* finds that slot's entry.
C24_CachedTimeslotsKeepStructure ==
    (historical_analysis_ready /\ ~needs_cache_update(last_cache_update, now)) =>
        /\ timeslot_data = [has_slots |-> TRUE, slots |-> cache]
        /\ current_slot = cache[slot_key(now)]

\* C25: the learned priors change only in a step after which the running pass of
\* _compute_initial_priors has no sensor left to compute, so no reader sees the
\* priors of a pass that is half done.
C25_PriorsSwappedAtOnce ==
    [][learned_priors' # learned_priors =>
          ~(/\ pc'["analysis"] = "priors"
            /\ prior_index' < Len(get_all_configured_sensors))]_vars

\* C26: two writes to the area's store are never less than SaveInterval apart.
C26_WritesRateLimited ==
    (last_call.kind = "write" /\ last_call.since # NoTime) =>
        last_call.at - last_call.since >= SaveInterval

\* C27: a historical-analysis run that has computed the priors can go on: its next
\* step, _async_historical_analysis, is not blocked.
C27_AnalysisRunGoesOn ==
    [](pc["analysis"] = "analysis_lock" =>
           ENABLED (\E r \in TaskRecorders : async_run_historical_analysis_task(r)))


\* The sensor_probabilities entry of a result for an entity.
ProbabilityOf(result, entity_id) ==
    LET i == CHOOSE j \in 1..Len(result.sensor_probabilities) :
                 result.sensor_probabilities[j].id = entity_id
    IN  result.sensor_probabilities[i].probability

\* The slot entries the coordinator can hand out: none before the analysis is ready.
SlotEntries ==
    IF historical_analysis_ready /\ timeslot_data.has_slots
    THEN timeslot_data.slots[slot_key(now)] ELSE <<>>

====
